---- MODULE Spec2Model ----
(***************************************************************************)
(* A model of the DataScript tree-walking interpreter: lexical             *)
(* environments, the control-flow signals (return / break / continue /     *)
(* runtime exception / fatal host error), try/catch, function calls, the   *)
(* module loader with its caches, and the `using mongo` scoped resource.   *)
(*                                                                         *)
(* The interpreter is recursive and asynchronous; here its JavaScript call *)
(* stack is the explicit sequence `stack` of frames (one frame per active  *)
(* eval_* / invokeCallable activation that owns a handler) and the value   *)
(* being thrown through that stack is `signal`.  The program text is not   *)
(* fixed: every step picks the next statement to evaluate, so a behaviour  *)
(* of the model is the evaluation of some program.                         *)
(***************************************************************************)
EXTENDS Integers, Sequences, FiniteSets, TLC

VARIABLES
  envs,                \* Environment objects, by identity (index)
  heap,                \* schema instances (ObjectVal), by identity (index)
  stack,               \* active handlers, innermost last
  signal,              \* the value being thrown, or kind "none"
  status,              \* "running" | "done" | "failed"   (main.ts run)
  result,              \* value of the last completed call expression
  last,                \* the statement / handler that made the last step
  resultCache,         \* moduleLoader.ts resultCache : path -> object id
  inProgress,          \* moduleLoader.ts inProgress
  moduleStack,         \* moduleLoader.ts moduleStack
  circular,            \* a circular import error has been raised
  databaseBinding,     \* mongoState.ts databaseBinding ("" is null)
  collectionBindings,  \* mongoState.ts collectionBindings
  conns,               \* the open Mongo connections (by identity)
  issued,              \* the last operation issued to a collection's driver
  timers,              \* the host's timers (setTimeout), in creation order
  sourceCode,          \* the text last handed to the lexer, as characters
  lexed                \* what the lexer made of it

vars == <<envs, heap, stack, signal, status, result, last, resultCache,
          inProgress, moduleStack, circular, databaseBinding,
          collectionBindings, conns, issued, timers, sourceCode, lexed>>

modVars == <<resultCache, inProgress, moduleStack, circular>>
\* What lies outside the interpreter: the registry, the driver, the host.
lexVars == <<sourceCode, lexed>>
mongoVars ==
  <<databaseBinding, collectionBindings, conns, issued, timers, lexVars>>

(***************************************************************************)
(* Bounds of the model.                                                    *)
(***************************************************************************)
MaxConditions == 3 \* conditions of one query expression
MaxDepth == 3      \* nesting of active handlers
MaxTimers == 2     \* timers one program creates
MaxSourceLen == 3  \* characters of a source text

(***************************************************************************)
(* Runtime values.  `val` is the payload as text (for a class and an       *)
(* instance: the schema name); `env` is the captured declaration           *)
(* environment of a function or class value, and the identity (index in    *)
(* heap) of an object.                                                     *)
(***************************************************************************)
MK_NULL == [type |-> "null", val |-> "", env |-> 0]
MK_NUMBER(n) == [type |-> "number", val |-> n, env |-> 0]
MK_STRING(s) == [type |-> "string", val |-> s, env |-> 0]
MK_NATIVE_FN(n) == [type |-> "native-fn", val |-> n, env |-> 0]
FunctionValue(name, declarationEnv) ==
  [type |-> "function", val |-> name, env |-> declarationEnv]
MK_CLASS(name, declarationEnv) ==
  [type |-> "class", val |-> name, env |-> declarationEnv]
ObjectVal(schemaName, id) == [type |-> "object", val |-> schemaName, env |-> id]
MK_ARRAY(id) == [type |-> "array", val |-> "", env |-> id]

\* The entry of operationMetaStore for an object (mongo.ts): a heap record
\* carries it as `meta`, NoMeta when the WeakMap has no entry.
NoMeta == [collection |-> MK_NULL, lastResult |-> MK_NULL]
\* No operation has been issued to a driver yet.
NoCall == [collection |-> 0, method |-> "", args |-> <<>>]

\* The messages of the fatal errors (thrown JavaScript strings).
ErrAlreadyDeclared == "Variable is already declared in this scope."
ErrReassignConst == "Attempted to reassign constant."
ErrUnresolved == "Unable to resolve name."
ErrReturnOutside == "Return statements are only allowed inside functions."
ErrBreakOutside == "Break statements are only allowed inside loops."
ErrContinueOutside == "Continue statements are only allowed inside loops."
ErrNotCallable == "Attempted to call a value that is not callable."
ErrFieldType == "Field expects another type."
ErrClassMember == "Member access on class is not implemented yet."
ErrNoProperty == "Cannot access property on value of this type."
ErrTooManyArgs(name) ==
  "Function '" \o name \o "' received more arguments than parameters."
ErrMissingArg(name, param) ==
  "Function '" \o name \o "' missing required argument '" \o param \o "'."
ErrParamType(name, param) ==
  "Function '" \o name \o "' expects parameter '" \o param
    \o "' to be of another type."
ErrMethodTooManyArgs(name) ==
  "Method '" \o name \o "' received more arguments than parameters."
ErrMethodMissingArg(name, param) ==
  "Method '" \o name \o "' missing required argument '" \o param \o "'."
ErrMethodParamType(name, param) ==
  "Method '" \o name \o "' expects parameter '" \o param
    \o "' to be of another type."
ErrUnknownField(schema, key) ==
  "Schema '" \o schema \o "' does not define a field named '" \o key \o "'."
ErrTooManyCtorArgs(schema) ==
  "Schema '" \o schema
    \o "' received more constructor arguments than parameters."
ErrCtorParamNoField(schema, param) ==
  "Constructor parameter '" \o param
    \o "' does not match any field on schema '" \o schema \o "'."
ErrRequiredField(schema, field) ==
  "Schema '" \o schema \o "' requires field '" \o field
    \o "' but no value was provided."

\* A signal is what is being thrown: `kind` and the carried `value`.  `depth`
\* and `target` record where it was raised: the number of active handlers
\* then, and the handler it is meant for (see InnermostTry below); `calls`
\* counts the function and method invocations it has been thrown out of.
NoSignal ==
  [kind |-> "none", value |-> MK_NULL, depth |-> 0, target |-> 0, calls |-> 0]

(***************************************************************************)
(* Environment (environment.ts).  An environment object is a record        *)
(* [parent, variables, constants, module, moduleExports]; parent 0 is      *)
(* `undefined`; `variables` is a function whose DOMAIN is the key set of   *)
(* the Map; `module` tells whether the object has an export table, which   *)
(* is then `moduleExports`.  Every operation                               *)
(* takes the store E of all environments and returns                       *)
(* [err, envs, value]: err = "" when it returns normally, otherwise the    *)
(* thrown message, with `envs` the store as the operation left it.         *)
(***************************************************************************)
EmptyMap == [n \in {} |-> MK_NULL]

NewEnvironment(parentENV) ==
  [parent |-> parentENV, variables |-> EmptyMap, constants |-> {},
   module |-> FALSE, moduleExports |-> EmptyMap]

Ok(E, v) == [err |-> "", envs |-> E, value |-> v]
Thrown(msg, E) == [err |-> msg, envs |-> E, value |-> MK_NULL]

hasOwnBinding(E, e, varName) == varName \in DOMAIN E[e].variables

RECURSIVE resolve(_, _, _)
resolve(E, e, varName) ==
  IF varName \in DOMAIN E[e].variables THEN e
  ELSE IF E[e].parent = 0 THEN 0
  ELSE resolve(E, E[e].parent, varName)

RECURSIVE hasBinding(_, _, _)
hasBinding(E, e, varName) ==
  IF varName \in DOMAIN E[e].variables THEN TRUE
  ELSE IF E[e].parent # 0 THEN hasBinding(E, E[e].parent, varName)
  ELSE FALSE

\* declareVar without the has() test: Map.set overwrites silently.
declareVar_NoCheck(E, e, varName, value, constant) ==
  Ok([E EXCEPT ![e].variables =
          [n \in (DOMAIN @) \cup {varName} |->
              IF n = varName THEN value ELSE @[n]],
        ![e].constants = IF constant THEN @ \cup {varName} ELSE @], value)

declareVar(E, e, varName, value, constant) ==
  IF varName \in DOMAIN E[e].variables
  THEN Thrown(ErrAlreadyDeclared, E)
  ELSE Ok([E EXCEPT ![e].variables = (varName :> value) @@ @,
             ![e].constants = IF constant THEN @ \cup {varName} ELSE @], value)

\* assignVar without the constants test.
assignVar_NoConstCheck(E, e, varName, value) ==
  LET env == resolve(E, e, varName) IN
  IF env = 0 THEN Thrown(ErrUnresolved, E)
  ELSE Ok([E EXCEPT ![env].variables[varName] = value], value)

assignVar(E, e, varName, value) ==
  LET env == resolve(E, e, varName) IN
  IF env = 0 THEN Thrown(ErrUnresolved, E)
  ELSE IF varName \in E[env].constants THEN Thrown(ErrReassignConst, E)
  ELSE Ok([E EXCEPT ![env].variables[varName] = value], value)

lookupVar(E, e, varName) ==
  LET env == resolve(E, e, varName) IN
  IF env = 0 THEN Thrown(ErrUnresolved, E)
  ELSE Ok(E, E[env].variables[varName])

RECURSIVE removeVar(_, _, _)
removeVar(E, e, varName) ==
  IF varName \in DOMAIN E[e].variables
  THEN [E EXCEPT ![e].variables = [n \in (DOMAIN @) \ {varName} |-> @[n]],
                 ![e].constants = @ \ {varName}]
  ELSE IF E[e].parent # 0 THEN removeVar(E, E[e].parent, varName)
  ELSE E

\* createGlobalENV: the built-in globals, all constants.
createGlobalENV ==
  [parent |-> 0,
   variables |-> ("print" :> MK_NATIVE_FN("print")),
   constants |-> {"print"},
   module |-> FALSE, moduleExports |-> EmptyMap]

(***************************************************************************)
(* Frames.  A frame stands for one activation that owns a handler:         *)
(*   program  eval_program of the entry script (main.ts run)               *)
(*   func     invokeCallable of a function value                           *)
(*   if       eval_if_statement / evaluateBlock of the taken branch        *)
(*   while    eval_while_statement, inside the loop body                   *)
(*   try      eval_try_catch_statement, inside the try block               *)
(*   catch    eval_try_catch_statement, inside the catch body              *)
(* `env` is the environment the frame's statements are evaluated in.       *)
(***************************************************************************)
Top == stack[Len(stack)]
CurEnv == Top.env
Pop(s) == SubSeq(s, 1, Len(s) - 1)
\* The frames of a suspended activation: an `await` on a pending promise,
\* and a native call whose JavaScript promise is pending.
Suspended == {"await", "native"}

Running ==
  /\ status = "running" /\ signal.kind = "none" /\ stack # <<>>
  /\ stack[Len(stack)].kind \notin Suspended
Unwinding == status = "running" /\ signal.kind # "none" /\ stack # <<>>

ControlSignals == {"return", "break", "continue"}

\* Depth of the frame a signal raised now is meant for, 0 when there is
\* none: the innermost try block, resp. the innermost function invocation
\* of the program or module being evaluated.
RECURSIVE InnermostTry(_, _)
InnermostTry(s, i) ==
  IF i = 0 THEN 0
  ELSE IF s[i].kind = "try" THEN i
  ELSE IF s[i].kind = "timer" THEN 0
  ELSE InnermostTry(s, i - 1)

RECURSIVE InnermostCallable(_, _)
InnermostCallable(s, i) ==
  IF i = 0 THEN 0
  ELSE IF s[i].kind \in {"func", "method"} THEN i
  ELSE IF s[i].kind \in {"program", "module"} THEN 0
  ELSE InnermostCallable(s, i - 1)

\* Depth of the innermost while loop enclosing frame i within the same
\* function, method, program or module body; 0 when there is none.
RECURSIVE InnermostLoop(_, _)
InnermostLoop(s, i) ==
  IF i = 0 THEN 0
  ELSE IF s[i].kind = "while" THEN i
  ELSE IF s[i].kind \in {"func", "method", "program", "module"} THEN 0
  ELSE InnermostLoop(s, i - 1)

\* A signal raised while the active handlers are S.
Signal(k, v, S, t) ==
  [kind |-> k, value |-> v, depth |-> Len(S), target |-> t, calls |-> 0]
FatalAt(msg, S) == Signal("fatal", MK_STRING(msg), S, InnermostTry(S, Len(S)))
Fatal(msg) == FatalAt(msg, stack)
ReturnSignal(v) ==
  Signal("return", v, stack, InnermostCallable(stack, Len(stack)))
RuntimeException(v) ==
  Signal("exception", v, stack, InnermostTry(stack, Len(stack)))
BreakSignal ==
  Signal("break", MK_NULL, stack, InnermostLoop(stack, Len(stack)))
ContinueSignal ==
  Signal("continue", MK_NULL, stack, InnermostLoop(stack, Len(stack)))

Raised(r) == IF r.err = "" THEN NoSignal ELSE Fatal(r.err)

\* `last`: the statement or handler of the last step, and the signal it
\* handled (NoSignal for a statement).
Op(o) == [op |-> o, sig |-> NoSignal]
Handled(o) == [op |-> o, sig |-> signal]

\* The resolved paths of the program's files; resultCache maps a path with
\* no entry to NotCached.
Paths == {"main", "a", "b"}
NotCached == -1

\* The namespace object of module path with identity id.  (A namespace has
\* no schemaName; `val` records the module it was built for.)
NamespaceVal(path, id) == [type |-> "object", val |-> path, env |-> id]

\* Garbage: environment objects and instances that nothing refers to any
\* more.  The roots are the environments and receivers of the active frames
\* S, the global environment and the values v in flight or cached; the
\* stores keep everything up to their last reachable object.
ValEnvs(v) == IF v.type \in {"function", "class"} THEN {v.env} ELSE {}
ValObjs(v) ==
  IF v.type = "array"
       \/ (v.type = "object"
             /\ v.val \notin {"MongoDatabase", "MongoCollection"})
  THEN {v.env} ELSE {}

Referenced(E, H, R) ==
  LET vals == UNION {{E[e].variables[n] : n \in DOMAIN E[e].variables}
                        \cup {E[e].moduleExports[n] :
                                n \in DOMAIN E[e].moduleExports} :
                        e \in R.envs}
               \cup UNION {{H[o].properties[n] : n \in DOMAIN H[o].properties} :
                             o \in R.objs}
  IN [envs |-> R.envs \cup (({E[e].parent : e \in R.envs}
                                 \cup {H[o].classEnv : o \in R.objs}) \ {0})
                      \cup UNION {ValEnvs(v) : v \in vals},
      objs |-> R.objs \cup UNION {ValObjs(v) : v \in vals}]

RECURSIVE Reachable(_, _, _)
Reachable(E, H, R) ==
  IF Referenced(E, H, R) = R THEN R ELSE Reachable(E, H, Referenced(E, H, R))

Roots(S, v) ==
  [envs |-> {1} \cup {S[i].env : i \in 1..Len(S)}
                \cup ({timers[i].env :
                         i \in {j \in DOMAIN timers :
                                  timers[j].state = "pending"}} \ {0}),
   objs |-> {S[i].inst : i \in {j \in 1..Len(S) : S[j].kind = "method"}}
            \cup UNION {ValObjs(w) : w \in v}]

RECURSIVE Trim(_, _)
Trim(store, live) ==
  IF Len(store) > 0 /\ Len(store) \notin live
  THEN Trim(SubSeq(store, 1, Len(store) - 1), live)
  ELSE store

\* The values held outside the environments: the last result, the thrown
\* value and the namespaces of the result cache C.
Held(C) ==
  {result, signal.value}
    \cup {NamespaceVal(p, C[p]) : p \in {q \in Paths : C[q] > 0}}

Collect(E, H, S, v) == Trim(E, Reachable(E, H, Roots(S, v)).envs)
CollectHeap(E, H, S, v) == Trim(H, Reachable(E, H, Roots(S, v)).objs)

SchemaName == "Counter"
Fields ==
  <<[name |-> "count", typeAnnotation |-> "number", required |-> FALSE,
     initializer |-> MK_NUMBER("1")]>>
Methods == {"m"}

\* An absent initializer or default value (undefined).
Undefined == [type |-> "undefined", val |-> "", env |-> 0]

\* A second schema, with a required field and a constructor signature,
\*     class Point create(label, px) { px: number;  label: string = "s";
\*                                     m() { ... }  set(px: number) { ... }
\*                                     put(q) { ... } }
\* and a function with parameters,
\*     fn g(p: number, q = 1) { ... }
PointName == "Point"
PointFields ==
  <<[name |-> "px", typeAnnotation |-> "number", required |-> TRUE,
     initializer |-> Undefined],
    [name |-> "label", typeAnnotation |-> "string", required |-> FALSE,
     initializer |-> MK_STRING("s")]>>

ClassFields(name) ==
  IF name = SchemaName THEN Fields
  ELSE IF name = PointName THEN PointFields ELSE <<>>

ClassMethods(name) ==
  IF name = SchemaName THEN Methods
  ELSE IF name = PointName THEN {"m", "set", "put"} ELSE {}

\* <<>> stands for no constructor signature (constructorParams undefined).
ClassConstructorParams(name) ==
  IF name = PointName THEN <<"label", "px">> ELSE <<>>

MethodParameters(name, method) ==
  IF name = PointName /\ method = "set"
  THEN <<[name |-> "px", typeAnnotation |-> "number",
          defaultValue |-> Undefined]>>
  ELSE IF name = PointName /\ method = "put"
  THEN <<[name |-> "q", typeAnnotation |-> "",
          defaultValue |-> Undefined]>>
  ELSE <<>>

FunctionParameters(name) ==
  IF name = "g"
  THEN <<[name |-> "p", typeAnnotation |-> "number",
          defaultValue |-> Undefined],
         [name |-> "q", typeAnnotation |-> "",
          defaultValue |-> MK_NUMBER("1")]>>
  ELSE <<>>

FieldNames(name) ==
  {ClassFields(name)[i].name : i \in 1..Len(ClassFields(name))}

\* The inputs the statements are picked with.
FieldValues == {MK_STRING("s")}
Names == {"x", "f", "print", "o", "count", "this", SchemaName}
ScopeNames == {"x", "f", "print", SchemaName}
DeclValues == {MK_NUMBER("1")}
AssignValues == {MK_NUMBER("2")}
ThrowValues == {MK_NUMBER("2")}

(***************************************************************************)
(* Statements and expressions on the environment.                          *)
(***************************************************************************)
eval_var_declaration(identifier, value, constant) ==
  /\ Running
  /\ LET r == declareVar(envs, CurEnv, identifier, value, constant) IN
       /\ envs' = r.envs
       /\ signal' = Raised(r)
  /\ last' = Op("declare")
  /\ UNCHANGED <<stack, status, result, heap, modVars, mongoVars>>

eval_assignment(varname, value) ==
  /\ Running
  /\ LET r == assignVar(envs, CurEnv, varname, value) IN
       /\ envs' = r.envs
       /\ signal' = Raised(r)
  /\ last' = Op("assign")
  /\ UNCHANGED <<stack, status, result, heap, modVars, mongoVars>>

eval_identifier(symbol) ==
  /\ Running
  /\ LET r == lookupVar(envs, CurEnv, symbol) IN
       /\ envs' = r.envs
       /\ signal' = Raised(r)
       /\ result' = r.value
  /\ last' = Op("lookup")
  /\ UNCHANGED <<stack, status, heap, modVars, mongoVars>>

eval_function_declaration(name) ==
  /\ Running
  /\ LET r == declareVar(envs, CurEnv, name, FunctionValue(name, CurEnv), TRUE)
     IN  /\ envs' = r.envs
         /\ signal' = Raised(r)
  /\ last' = Op("func")
  /\ UNCHANGED <<stack, status, result, heap, modVars, mongoVars>>

(***************************************************************************)
(* Calls.  eval_call_expr evaluates the callee in the calling environment  *)
(* and hands it to invokeCallable; a function value gets a fresh scope     *)
(* whose parent is its declaration environment.                            *)
(***************************************************************************)
\* The scope's parent: dynamic scoping (the caller's environment).
ScopeParent_Caller(func, callerEnv) == callerEnv

ScopeParent(func, callerEnv) == func.env

\* Whether a value has the annotated type (a schema name matches the
\* instances of that schema).
matchesTypeAnnotation(annotation, value) ==
  IF annotation = "any" THEN TRUE
  ELSE IF annotation \in {"string", "number", "boolean", "null"}
  THEN value.type = annotation
  ELSE IF annotation \in {"array", "object"} THEN value.type = annotation
  ELSE value.type = "object" /\ value.val = annotation

\* The parameter loop of invokeCallable from parameter i on, the defaults
\* being literals: [err, envs].
RECURSIVE bindParameters(_, _, _, _, _, _)
bindParameters(E, scope, functionName, parameters, args, i) ==
  IF i > Len(parameters) THEN [err |-> "", envs |-> E]
  ELSE LET param == parameters[i]
           argument == IF i <= Len(args) THEN args[i] ELSE param.defaultValue
           d == declareVar(E, scope, param.name, argument, FALSE)
       IN IF argument = Undefined
          THEN [err |-> ErrMissingArg(functionName, param.name), envs |-> E]
          ELSE IF param.typeAnnotation # ""
                  /\ ~matchesTypeAnnotation(param.typeAnnotation, argument)
          THEN [err |-> ErrParamType(functionName, param.name), envs |-> E]
          ELSE IF d.err # "" THEN [err |-> d.err, envs |-> E]
          ELSE bindParameters(d.envs, scope, functionName, parameters, args,
                              i + 1)

\* The arity test of invokeCallable.  Variant: extra arguments are ignored.
tooManyArguments_Ignore(args, parameters) == FALSE

tooManyArguments(args, parameters) == Len(args) > Len(parameters)

eval_call_expr(callee, args) ==
  /\ Running
  /\ LET r == lookupVar(envs, CurEnv, callee)
         fn == r.value
         scope == Len(envs) + 1
         parameters == FunctionParameters(fn.val)
         b == bindParameters(
                Append(envs, NewEnvironment(ScopeParent(fn, CurEnv))),
                scope, fn.val, parameters, args, 1)
     IN
       IF r.err # ""
       THEN /\ signal' = Fatal(r.err)
            /\ UNCHANGED <<envs, stack, result>>
       ELSE IF fn.type = "native-fn"
       THEN /\ result' = MK_NULL
            /\ UNCHANGED <<envs, stack, signal>>
       ELSE IF fn.type = "function"
       THEN IF tooManyArguments(args, parameters)
            THEN /\ signal' = Fatal(ErrTooManyArgs(fn.val))
                 /\ UNCHANGED <<envs, stack, result>>
            ELSE IF b.err # ""
            THEN /\ signal' = Fatal(b.err)
                 /\ UNCHANGED <<envs, stack, result>>
            ELSE /\ Len(stack) < MaxDepth
                 /\ envs' = b.envs
                 /\ stack' = Append(stack,
                      [kind |-> "func", env |-> scope,
                       caller |-> CurEnv, decl |-> fn.env])
                 /\ UNCHANGED <<signal, result>>
       ELSE /\ signal' = Fatal(ErrNotCallable)
            /\ UNCHANGED <<envs, stack, result>>
  /\ last' = Op("call")
  /\ UNCHANGED <<status, heap, modVars, mongoVars>>

\* Leaving the innermost frame: its activation is over.
Leave ==
  /\ stack' = Pop(stack)
  /\ envs' = Collect(envs, heap, Pop(stack), Held(resultCache))
  /\ heap' = CollectHeap(envs, heap, Pop(stack), Held(resultCache))

\* The body ran to its end: invokeCallable returns MK_NULL().
invokeCallable_end ==
  /\ Running
  /\ Top.kind = "func"
  /\ Leave
  /\ result' = MK_NULL
  /\ last' = Op("callEnd")
  /\ UNCHANGED <<signal, status, modVars, mongoVars>>

\* What the catch clause of invokeCallable does with what the body threw:
\* [signal, result] after it, where signal "none" means the call returns.
\* Variant: a return signal is passed on to the caller's handlers.
invokeCallable_signal_Rethrow(sig, res) == [signal |-> sig, result |-> res]

\* Variant: break and continue are passed on to the caller's handlers.
invokeCallable_signal_PassLoop(sig, res) ==
  IF sig.kind = "return" THEN [signal |-> NoSignal, result |-> sig.value]
  ELSE [signal |-> sig, result |-> res]

invokeCallable_signal(sig, res) ==
  IF sig.kind = "return" THEN [signal |-> NoSignal, result |-> sig.value]
  ELSE IF sig.kind = "break"
  THEN [signal |-> FatalAt(ErrBreakOutside, Pop(stack)), result |-> res]
  ELSE IF sig.kind = "continue"
  THEN [signal |-> FatalAt(ErrContinueOutside, Pop(stack)), result |-> res]
  ELSE [signal |-> [sig EXCEPT !.calls = @ + 1], result |-> res]

invokeCallable_catch ==
  /\ Unwinding
  /\ Top.kind = "func"
  /\ Leave
  /\ LET after == invokeCallable_signal(signal, result) IN
       /\ signal' = after.signal
       /\ result' = after.result
  /\ last' = Handled("callCatch")
  /\ UNCHANGED <<status, modVars, mongoVars>>

(***************************************************************************)
(* Schemas.  The programs declare one schema (SchemaName, Fields, Methods), *)
(*     class Counter { count: number = 1;  m() { ... } }                   *)
(* whose method body, like every body, is whatever statements are picked.  *)
(* An instance is a heap record [schemaName, classEnv, properties]: the    *)
(* bound methods of an instance close over the class value, hence over its *)
(* declaration environment classEnv.                                       *)
(***************************************************************************)
\* "" when the value is accepted, otherwise the thrown message.
\* Variant: every value is accepted.
validateSchemaFieldType_Any(field, value) == ""

validateSchemaFieldType(field, value) ==
  IF field.typeAnnotation = "" THEN ""
  ELSE IF field.typeAnnotation = "any" THEN ""
  ELSE IF ~field.required /\ value.type = "null" THEN ""
  ELSE IF matchesTypeAnnotation(field.typeAnnotation, value) THEN ""
  ELSE ErrFieldType

eval_class_declaration(name) ==
  /\ Running
  /\ LET r == declareVar(envs, CurEnv, name, MK_CLASS(name, CurEnv), TRUE) IN
       /\ envs' = r.envs
       /\ signal' = Raised(r)
  /\ last' = Op("class")
  /\ UNCHANGED <<stack, status, result, heap, modVars, mongoVars>>

\* eval_object_expr of a literal whose property values are evaluated:
\* [heap, value].
eval_object_expr(H, properties) ==
  [heap |-> Append(H, [schemaName |-> "", classEnv |-> 0, meta |-> NoMeta,
                       properties |-> properties]),
   value |-> ObjectVal("", Len(H) + 1)]

\* The keys of an object's property map: those of an instance include its
\* bound methods and `save`.
PropertyKeys(H, id) ==
  DOMAIN H[id].properties
    \cup (IF H[id].schemaName \in {SchemaName, PointName}
          THEN ClassMethods(H[id].schemaName) \cup {"save"} ELSE {})

\* The arguments as a named-argument map: [err, provided].  The key named
\* by the error is the first one met that is no field.
namedArguments(H, className, namedArgs) ==
  LET unknown == PropertyKeys(H, namedArgs.env) \ FieldNames(className) IN
  IF unknown # {}
  THEN [err |-> ErrUnknownField(className, CHOOSE k \in unknown : TRUE),
        provided |-> EmptyMap]
  ELSE [err |-> "", provided |-> H[namedArgs.env].properties]

\* The positional loop of instantiateSchema from argument i on.
RECURSIVE positionalArguments(_, _, _, _, _)
positionalArguments(className, order, args, provided, i) ==
  IF i > Len(args) THEN [err |-> "", provided |-> provided]
  ELSE IF order[i] \notin FieldNames(className)
  THEN [err |-> ErrCtorParamNoField(className, order[i]),
        provided |-> provided]
  ELSE positionalArguments(className, order, args,
                           (order[i] :> args[i]) @@ provided, i + 1)

\* The order of positional arguments.  Variant: always the fields' order.
constructorOrder_Fields(className) ==
  [i \in 1..Len(ClassFields(className)) |-> ClassFields(className)[i].name]

constructorOrder(className) ==
  IF ClassConstructorParams(className) # <<>>
  THEN ClassConstructorParams(className)
  ELSE [i \in 1..Len(ClassFields(className)) |->
          ClassFields(className)[i].name]

\* The field loop of instantiateSchema, from field i on, the initializers
\* being literals: [err, props].
RECURSIVE initFields(_, _, _, _)
initFields(className, provided, props, i) ==
  IF i > Len(ClassFields(className)) THEN [err |-> "", props |-> props]
  ELSE LET field == ClassFields(className)[i]
           value == IF field.name \in DOMAIN provided
                    THEN provided[field.name]
                    ELSE IF field.initializer # Undefined
                    THEN field.initializer
                    ELSE MK_NULL
           bad == validateSchemaFieldType(field, value)
       IN IF /\ field.name \notin DOMAIN provided
             /\ field.initializer = Undefined
             /\ field.required
          THEN [err |-> ErrRequiredField(className, field.name),
                props |-> props]
          ELSE IF bad # "" THEN [err |-> bad, props |-> props]
          ELSE initFields(className, provided,
                          (field.name :> value) @@ props, i + 1)

\* instantiateSchema: [err, heap, value], value the new instance.
instantiateSchema(H, classVal, args) ==
  LET className == classVal.val
      order == constructorOrder(className)
      p == IF Len(args) = 1 /\ args[1].type = "object"
           THEN namedArguments(H, className, args[1])
           ELSE IF Len(args) > Len(order)
           THEN [err |-> ErrTooManyCtorArgs(className), provided |-> EmptyMap]
           ELSE positionalArguments(className, order, args, EmptyMap, 1)
      r == initFields(className, p.provided, EmptyMap, 1)
  IN IF p.err # "" THEN [err |-> p.err, heap |-> H, value |-> MK_NULL]
     ELSE IF r.err # "" THEN [err |-> r.err, heap |-> H, value |-> MK_NULL]
     ELSE [err |-> "",
           heap |-> Append(H, [schemaName |-> className,
                               classEnv |-> classVal.env,
                               meta |-> NoMeta,
                               properties |-> r.props]),
           value |-> ObjectVal(className, Len(H) + 1)]

\* The evaluated arguments of a call: the values, or one object literal
\* with the given properties.  [heap, values].
eval_arguments(H, args) ==
  IF args.literal
  THEN LET o == eval_object_expr(H, args.properties) IN
         [heap |-> o.heap, values |-> <<o.value>>]
  ELSE [heap |-> H, values |-> args.values]

Positional(values) ==
  [literal |-> FALSE, values |-> values, properties |-> EmptyMap]
Named(properties) ==
  [literal |-> TRUE, values |-> <<>>, properties |-> properties]

\* `declare identifier = callee(args);` where callee names a class.
eval_var_declaration_instance(identifier, callee, args) ==
  /\ Running
  /\ LET fn == lookupVar(envs, CurEnv, callee) IN
       IF fn.err # ""
       THEN /\ signal' = Fatal(fn.err)
            /\ UNCHANGED <<envs, heap>>
       ELSE /\ fn.value.type = "class"
            /\ LET a == eval_arguments(heap, args)
                   inst == instantiateSchema(a.heap, fn.value, a.values)
                   r == declareVar(envs, CurEnv, identifier, inst.value, FALSE)
               IN IF inst.err # ""
                  THEN /\ signal' = Fatal(inst.err)
                       /\ UNCHANGED <<envs, heap>>
                  ELSE /\ envs' = r.envs
                       /\ heap' = CollectHeap(r.envs, inst.heap, stack,
                                              Held(resultCache))
                       /\ signal' = Raised(r)
  /\ last' = Op("new")
  /\ UNCHANGED <<stack, status, result, modVars, mongoVars>>

\* The locals of a method scope: `this` and one variable per field holding
\* the instance's current property.
RECURSIVE declareFields(_, _, _, _, _)
declareFields(E, e, fields, props, i) ==
  IF i > Len(fields) THEN E
  ELSE declareFields(
         declareVar(E, e, fields[i].name,
                    IF fields[i].name \in DOMAIN props
                    THEN props[fields[i].name] ELSE MK_NULL, FALSE).envs,
         e, fields, props, i + 1)

\* One parameter of bindMethod is bound to its argument: a parameter named
\* like a field is assigned to the field local, any other is declared.
\* Variant: a parameter named like a field is left unbound, the field local
\* keeps the instance's property.
bindMethodParameter_FieldKept(E, methodEnv, className, param, argument) ==
  IF param.name \in FieldNames(className)
  THEN Ok(E, argument)
  ELSE declareVar(E, methodEnv, param.name, argument, FALSE)

bindMethodParameter(E, methodEnv, className, param, argument) ==
  IF param.name \in FieldNames(className)
  THEN assignVar(E, methodEnv, param.name, argument)
  ELSE declareVar(E, methodEnv, param.name, argument, FALSE)

\* The parameter loop of bindMethod from parameter i on.  [err, envs].
RECURSIVE bindMethodParameters(_, _, _, _, _, _, _)
bindMethodParameters(E, methodEnv, className, method, parameters, args, i) ==
  IF i > Len(parameters) THEN [err |-> "", envs |-> E]
  ELSE LET param == parameters[i]
           argument == IF i <= Len(args) THEN args[i] ELSE param.defaultValue
           d == bindMethodParameter(E, methodEnv, className, param, argument)
       IN IF argument = Undefined
          THEN [err |-> ErrMethodMissingArg(method, param.name), envs |-> E]
          ELSE IF param.typeAnnotation # ""
                  /\ ~matchesTypeAnnotation(param.typeAnnotation, argument)
          THEN [err |-> ErrMethodParamType(method, param.name), envs |-> E]
          ELSE IF d.err # "" THEN [err |-> d.err, envs |-> E]
          ELSE bindMethodParameters(d.envs, methodEnv, className, method,
                                    parameters, args, i + 1)

\* The parent of a method scope.  Variant: the caller's environment.
MethodParent_Caller(classEnv, callerEnv) == callerEnv

MethodParent(classEnv, callerEnv) == classEnv

\* `object.property();` : eval_member_expr finds the bound method, which
\* invokeCallable calls as a native function (bindMethod, up to the body).
eval_member_call(object, property, args) ==
  /\ Running
  /\ LET r == lookupVar(envs, CurEnv, object)
         target == r.value
     IN
       IF r.err # ""
       THEN /\ signal' = Fatal(r.err)
            /\ UNCHANGED <<envs, stack>>
       ELSE IF target.type = "class"
       THEN /\ signal' = Fatal(ErrClassMember)
            /\ UNCHANGED <<envs, stack>>
       ELSE IF target.type # "object"
       THEN /\ signal' = Fatal(ErrNoProperty)
            /\ UNCHANGED <<envs, stack>>
       ELSE IF property \notin ClassMethods(target.val)
       THEN /\ signal' = Fatal(ErrNotCallable)
            /\ UNCHANGED <<envs, stack>>
       ELSE LET methodEnv == Len(envs) + 1
                inst == heap[target.env]
                parameters == MethodParameters(target.val, property)
                E1 == Append(envs, NewEnvironment(
                               MethodParent(inst.classEnv, CurEnv)))
                E2 == declareVar(E1, methodEnv, "this", target, FALSE).envs
                E3 == declareFields(E2, methodEnv, ClassFields(target.val),
                                    inst.properties, 1)
                b == bindMethodParameters(E3, methodEnv, target.val,
                                          target.val \o "." \o property,
                                          parameters, args, 1)
            IN IF Len(args) > Len(parameters)
               THEN /\ signal' = Fatal(ErrMethodTooManyArgs(
                                          target.val \o "." \o property))
                    /\ UNCHANGED <<envs, stack>>
               ELSE IF b.err # ""
               THEN /\ signal' = Fatal(b.err)
                    /\ UNCHANGED <<envs, stack>>
               ELSE /\ Len(stack) < MaxDepth
                    /\ envs' = b.envs
                    /\ stack' = Append(stack,
                         [kind |-> "method", env |-> methodEnv,
                          caller |-> CurEnv, decl |-> inst.classEnv,
                          inst |-> target.env])
                    /\ UNCHANGED signal
  /\ last' = Op("call")
  /\ UNCHANGED <<status, result, heap, modVars, mongoVars>>

\* The write-back loop of bindMethod from field i on: [err, heap].  A field
\* that fails the type check throws; the fields before it are written.
RECURSIVE writeBack(_, _, _, _, _)
writeBack(H, E, methodEnv, inst, i) ==
  IF i > Len(ClassFields(H[inst].schemaName)) THEN [err |-> "", heap |-> H]
  ELSE LET field == ClassFields(H[inst].schemaName)[i]
           updated == lookupVar(E, methodEnv, field.name)
           bad == validateSchemaFieldType(field, updated.value)
       IN IF updated.err # "" THEN [err |-> updated.err, heap |-> H]
          ELSE IF bad # "" THEN [err |-> bad, heap |-> H]
          ELSE writeBack([H EXCEPT ![inst].properties[field.name] =
                                      updated.value],
                         E, methodEnv, inst, i + 1)

\* Leaving a method invocation whose write-back left the heap H.
LeaveMethod(H) ==
  /\ stack' = Pop(stack)
  /\ envs' = Collect(envs, H, Pop(stack), Held(resultCache))
  /\ heap' = CollectHeap(envs, H, Pop(stack), Held(resultCache))

\* The method body ran to its end: write back, return MK_NULL().
bindMethod_end ==
  /\ Running
  /\ Top.kind = "method"
  /\ LET wb == writeBack(heap, envs, Top.env, Top.inst, 1) IN
       /\ LeaveMethod(wb.heap)
       /\ IF wb.err # ""
          THEN signal' = FatalAt(wb.err, Pop(stack)) /\ UNCHANGED result
          ELSE signal' = NoSignal /\ result' = MK_NULL
  /\ last' = Op("methodEnd")
  /\ UNCHANGED <<status, modVars, mongoVars>>

\* What the catch clause of bindMethod does with what the body threw, wb
\* being the outcome of the write-back it runs for a return signal:
\* [signal, result, heap].
\* Variant: the value is returned even when the write-back throws.
bindMethod_signal_Unchecked(sig, res, wb) ==
  IF sig.kind = "return"
  THEN [signal |-> NoSignal, result |-> sig.value, heap |-> wb.heap]
  ELSE [signal |-> sig, result |-> res, heap |-> heap]

bindMethod_signal(sig, res, wb) ==
  IF sig.kind = "return"
  THEN IF wb.err # ""
       THEN [signal |-> FatalAt(wb.err, Pop(stack)), result |-> res,
             heap |-> wb.heap]
       ELSE [signal |-> NoSignal, result |-> sig.value, heap |-> wb.heap]
  ELSE IF sig.kind = "break"
  THEN [signal |-> FatalAt(ErrBreakOutside, Pop(stack)), result |-> res,
        heap |-> heap]
  ELSE IF sig.kind = "continue"
  THEN [signal |-> FatalAt(ErrContinueOutside, Pop(stack)), result |-> res,
        heap |-> heap]
  ELSE [signal |-> [sig EXCEPT !.calls = @ + 1], result |-> res,
        heap |-> heap]

bindMethod_catch ==
  /\ Unwinding
  /\ Top.kind = "method"
  /\ LET after == bindMethod_signal(signal, result,
                     writeBack(heap, envs, Top.env, Top.inst, 1))
     IN /\ LeaveMethod(after.heap)
        /\ signal' = after.signal
        /\ result' = after.result
  /\ last' = Handled("methodCatch")
  /\ UNCHANGED <<status, modVars, mongoVars>>

(***************************************************************************)
(* Statements that raise a signal.                                         *)
(***************************************************************************)
eval_throw_statement(value) ==
  /\ Running
  /\ signal' = RuntimeException(value)
  /\ last' = Op("throw")
  /\ UNCHANGED <<envs, stack, status, result, heap, modVars, mongoVars>>

eval_return_statement(value) ==
  /\ Running
  /\ signal' = ReturnSignal(value)
  /\ last' = Op("return")
  /\ UNCHANGED <<envs, stack, status, result, heap, modVars, mongoVars>>

eval_break_statement ==
  /\ Running
  /\ signal' = BreakSignal
  /\ last' = Op("break")
  /\ UNCHANGED <<envs, stack, status, result, heap, modVars, mongoVars>>

eval_continue_statement ==
  /\ Running
  /\ signal' = ContinueSignal
  /\ last' = Op("continue")
  /\ UNCHANGED <<envs, stack, status, result, heap, modVars, mongoVars>>

(***************************************************************************)
(* Blocks.  The bodies of if, while and try are evaluated by evaluateBlock *)
(* in the environment of the statement.  Entering the statement pushes its *)
(* frame (for if and while: the test was truthy); evaluateBlock_end is the *)
(* block running to its end (for while: and the next test being falsy; a   *)
(* further iteration runs more statements in the same frame).              *)
(***************************************************************************)
\* Variant: the body is evaluated in the global environment.
BlockFrame_Global(k, p) == [kind |-> k, env |-> 1, param |-> p]

BlockFrame(k, p) == [kind |-> k, env |-> CurEnv, param |-> p]

eval_if_statement ==
  /\ Running
  /\ Len(stack) < MaxDepth
  /\ stack' = Append(stack, BlockFrame("if", ""))
  /\ last' = Op("if")
  /\ UNCHANGED <<envs, signal, status, result, heap, modVars, mongoVars>>

eval_while_statement ==
  /\ Running
  /\ Len(stack) < MaxDepth
  /\ stack' = Append(stack, BlockFrame("while", ""))
  /\ last' = Op("while")
  /\ UNCHANGED <<envs, signal, status, result, heap, modVars, mongoVars>>

\* param = "" is `catch { ... }` without a parameter.
eval_try_catch_statement(param) ==
  /\ Running
  /\ Len(stack) < MaxDepth
  /\ stack' = Append(stack, BlockFrame("try", param))
  /\ last' = Op("try")
  /\ UNCHANGED <<envs, signal, status, result, heap, modVars, mongoVars>>

evaluateBlock_end ==
  /\ Running
  /\ Top.kind \in {"if", "while", "try", "catch"}
  /\ Leave
  /\ last' = Op("blockEnd")
  /\ UNCHANGED <<signal, status, result, modVars, mongoVars>>

\* if statements and catch bodies have no handler: whatever is thrown in
\* them leaves the statement.
evaluateBlock_throw ==
  /\ Unwinding
  /\ Top.kind \in {"if", "catch"}
  /\ Leave
  /\ last' = Handled("blockThrow")
  /\ UNCHANGED <<signal, status, result, modVars, mongoVars>>

\* The body of the loop ran to its end and the test is truthy again: the
\* next iteration evaluates the same block with the same environment.
eval_while_statement_iterate ==
  /\ Running
  /\ Top.kind = "while"
  /\ last' = Op("iterate")
  /\ UNCHANGED <<envs, stack, signal, status, result, heap, modVars,
                 mongoVars>>

\* The catch clause around the loop body in eval_while_statement.
eval_while_catch ==
  /\ Unwinding
  /\ Top.kind = "while"
  /\ IF signal.kind = "break"
     THEN Leave /\ signal' = NoSignal
     ELSE IF signal.kind = "continue"
     THEN UNCHANGED <<stack, envs, heap>> /\ signal' = NoSignal
     ELSE Leave /\ signal' = signal
  /\ last' = Handled("whileCatch")
  /\ UNCHANGED <<status, result, modVars, mongoVars>>

\* error is the thrown thing: a RuntimeException carries the thrown value,
\* a thrown string (a fatal error) becomes a string value.
convertErrorToRuntimeVal(error) ==
  IF error.kind = "exception" THEN error.value
  ELSE MK_STRING(error.value.val)

\* Which thrown things eval_try_catch_statement hands to its catch clause:
\* everything but the three control-flow signals.
\* Variant: only a RuntimeException is handed to the catch clause.
Catches_OnlyExceptions(error) == error.kind = "exception"

\* Variant: a return signal is handed to the catch clause too.
Catches_Return(error) == error.kind \notin {"break", "continue"}

Catches(error) == error.kind \notin ControlSignals

\* The value bound to the catch parameter.
\* Variant: the message of the JavaScript error object.
CatchValue_Message(error) == MK_STRING("Runtime exception")

CatchValue(error) == convertErrorToRuntimeVal(error)

\* The catch clause of eval_try_catch_statement.
eval_try_catch_catch ==
  /\ Unwinding
  /\ Top.kind = "try"
  /\ IF ~Catches(signal)
     THEN /\ Leave
          /\ UNCHANGED signal
     ELSE /\ LET catchEnv == Len(envs) + 1
                 E1 == Append(envs, NewEnvironment(Top.env))
                 r == IF Top.param # ""
                      THEN declareVar(E1, catchEnv, Top.param,
                                      CatchValue(signal), FALSE)
                      ELSE Ok(E1, MK_NULL)
             IN /\ envs' = r.envs
                /\ stack' = Append(Pop(stack),
                     [kind |-> "catch", env |-> catchEnv, param |-> Top.param])
                /\ signal' = NoSignal
                /\ UNCHANGED heap
  /\ last' = Handled("tryCatch")
  /\ UNCHANGED <<status, result, modVars, mongoVars>>

(***************************************************************************)
(* The entry program (main.ts run around eval_program).                    *)
(***************************************************************************)
EntryPath == "main"

clearModuleInProgress(S, path) == S \ {path}
popModuleContext(S) == IF S = <<>> THEN S ELSE Pop(S)

\* eval_program turns a control-flow signal that reaches it into an error.
eval_program_signal(sig) ==
  IF sig.kind = "return" THEN FatalAt(ErrReturnOutside, Pop(stack))
  ELSE IF sig.kind = "break" THEN FatalAt(ErrBreakOutside, Pop(stack))
  ELSE IF sig.kind = "continue" THEN FatalAt(ErrContinueOutside, Pop(stack))
  ELSE sig

run_end ==
  /\ Running
  /\ Top.kind = "program"
  /\ stack' = <<>>
  /\ status' = "done"
  /\ resultCache' = [resultCache EXCEPT ![EntryPath] = 0]
  /\ inProgress' = clearModuleInProgress(inProgress, EntryPath)
  /\ moduleStack' = popModuleContext(moduleStack)
  /\ last' = Op("runEnd")
  /\ UNCHANGED <<envs, signal, result, heap, circular, mongoVars>>

run_catch ==
  /\ Unwinding
  /\ Top.kind = "program"
  /\ stack' = <<>>
  /\ status' = "failed"
  /\ signal' = eval_program_signal(signal)
  /\ inProgress' = clearModuleInProgress(inProgress, EntryPath)
  /\ moduleStack' = popModuleContext(moduleStack)
  /\ last' = Handled("runCatch")
  /\ UNCHANGED <<envs, result, resultCache, heap, circular, mongoVars>>

(***************************************************************************)
(* Modules (moduleLoader.ts, eval_import_statement).  An import statement  *)
(* is [namespace, namedImports, defaultBinding], "" for a binding that is  *)
(* not given; its source is given by the resolved path.  A module frame    *)
(* stands for eval_import_statement waiting for the module's program; it   *)
(* remembers the importing environment, the statement and the depth of     *)
(* the module context stack at the import.                                 *)
(***************************************************************************)
ErrCircular(path) ==
  "Circular module import detected while loading '" \o path \o "'."
ErrImportExists(name) ==
  "Cannot import binding '" \o name
    \o "' because it already exists in this scope."
ErrNoExport(name) == "Module does not export '" \o name \o "'."
ErrNotNamespace ==
  "Import target did not evaluate to a module namespace object."
ErrNoModuleScope(varName) ==
  "Cannot export '" \o varName
    \o "' from this scope. Ensure exports happen within a module."

\* markModuleInProgress without the has() test.
markModuleInProgress_NoCheck(S, path) == [err |-> "", set |-> S \cup {path}]

\* [err, set]: throws when the path is being loaded.
markModuleInProgress(S, path) ==
  IF path \in S THEN [err |-> ErrCircular(path), set |-> S]
  ELSE [err |-> "", set |-> S \cup {path}]

pushModuleContext(S, path) == Append(S, path)
cacheModuleResult(C, path, value) == [C EXCEPT ![path] = value]

\* removeModuleResult that leaves the entry in place.
removeModuleResult_Keep(C, path) == C

removeModuleResult(C, path) == [C EXCEPT ![path] = NotCached]

createModuleEnvironment(parent) ==
  [NewEnvironment(parent) EXCEPT !.module = TRUE]

RECURSIVE setModuleExport(_, _, _, _)
setModuleExport(E, e, varName, value) ==
  IF E[e].module
  THEN Ok([E EXCEPT ![e].moduleExports = (varName :> value) @@ @], value)
  ELSE IF E[e].parent # 0 THEN setModuleExport(E, E[e].parent, varName, value)
  ELSE Thrown(ErrNoModuleScope(varName), E)

\* `export declare identifier = value;`
eval_export_declaration(identifier, value) ==
  /\ Running
  /\ LET d == declareVar(envs, CurEnv, identifier, value, FALSE)
         x == setModuleExport(d.envs, CurEnv, identifier,
                              lookupVar(d.envs, CurEnv, identifier).value)
     IN IF d.err # ""
        THEN envs' = d.envs /\ signal' = Raised(d)
        ELSE envs' = x.envs /\ signal' = Raised(x)
  /\ last' = Op("export")
  /\ UNCHANGED <<stack, status, result, heap, modVars, mongoVars>>

\* `export default value;`
eval_export_default(value) ==
  /\ Running
  /\ LET x == setModuleExport(envs, CurEnv, "default", value)
     IN envs' = x.envs /\ signal' = Raised(x)
  /\ last' = Op("exportDefault")
  /\ UNCHANGED <<stack, status, result, heap, modVars, mongoVars>>

buildNamespaceValue(H, exports, path) ==
  [heap |-> Append(H, [schemaName |-> "", classEnv |-> 0, meta |-> NoMeta,
                       properties |-> exports]),
   value |-> NamespaceVal(path, Len(H) + 1)]

getNamespaceExport(E, H, namespace, name) ==
  IF namespace.type # "object" THEN Thrown(ErrNotNamespace, E)
  ELSE IF name \notin DOMAIN H[namespace.env].properties
  THEN Thrown(ErrNoExport(name), E)
  ELSE Ok(E, H[namespace.env].properties[name])

bindImportBinding_Overwrite(E, e, name, value) ==
  declareVar_NoCheck(E, e, name, value, TRUE)

bindImportBinding(E, e, name, value) ==
  IF hasOwnBinding(E, e, name) THEN Thrown(ErrImportExists(name), E)
  ELSE declareVar(E, e, name, value, TRUE)

\* The namedImports loop of applyImportBindings, from name i on.
RECURSIVE bindNamedImports(_, _, _, _, _, _)
bindNamedImports(E, H, e, namespace, names, i) ==
  IF i > Len(names) THEN Ok(E, namespace)
  ELSE LET v == getNamespaceExport(E, H, namespace, names[i])
           b == bindImportBinding(E, e, names[i], v.value)
       IN IF v.err # "" THEN v
          ELSE IF b.err # "" THEN b
          ELSE bindNamedImports(b.envs, H, e, namespace, names, i + 1)

\* [err, envs, value]: the bindings made before a failing one stay.
applyImportBindings(E, H, e, namespace, statement) ==
  LET r1 == IF statement.namespace # ""
            THEN bindImportBinding(E, e, statement.namespace, namespace)
            ELSE Ok(E, namespace)
      r2 == IF r1.err # "" THEN r1
            ELSE bindNamedImports(r1.envs, H, e, namespace,
                                  statement.namedImports, 1)
      v == getNamespaceExport(r2.envs, H, namespace, "default")
  IN IF r2.err # "" \/ statement.defaultBinding = "" THEN r2
     ELSE IF v.err # "" THEN v
     ELSE bindImportBinding(r2.envs, e, statement.defaultBinding, v.value)

eval_import_statement(resolvedPath, statement) ==
  /\ Running
  /\ LET cached == resultCache[resolvedPath]
         r == applyImportBindings(envs, heap, CurEnv,
                                  NamespaceVal(resolvedPath, cached), statement)
         mark == markModuleInProgress(inProgress, resolvedPath)
     IN
       IF cached # NotCached
       THEN /\ envs' = r.envs
            /\ signal' = Raised(r)
            /\ UNCHANGED <<stack, modVars>>
       ELSE IF mark.err # ""
       THEN /\ signal' = Fatal(mark.err)
            /\ circular' = TRUE
            /\ UNCHANGED <<envs, stack, resultCache, inProgress, moduleStack>>
       ELSE /\ Len(stack) < MaxDepth
            /\ envs' = Append(envs, createModuleEnvironment(CurEnv))
            /\ stack' = Append(stack,
                 [kind |-> "module", env |-> Len(envs) + 1,
                  path |-> resolvedPath, importer |-> CurEnv,
                  statement |-> statement, context |-> Len(moduleStack)])
            /\ inProgress' = mark.set
            /\ moduleStack' = pushModuleContext(moduleStack, resolvedPath)
            /\ UNCHANGED <<signal, resultCache, circular>>
  /\ last' = Op("import")
  /\ UNCHANGED <<status, result, heap, mongoVars>>

\* The module's program ran to its end: build and cache the namespace,
\* bind at the import site; when binding throws, the catch clause evicts
\* the result; finally the context is popped and the mark cleared.
eval_import_end ==
  /\ Running
  /\ Top.kind = "module"
  /\ LET ns == buildNamespaceValue(heap, envs[Top.env].moduleExports, Top.path)
         C1 == cacheModuleResult(resultCache, Top.path, ns.value.env)
         r == applyImportBindings(envs, ns.heap, Top.importer, ns.value,
                                  Top.statement)
         C2 == IF r.err = "" THEN C1 ELSE removeModuleResult(C1, Top.path)
     IN /\ resultCache' = C2
        /\ signal' = IF r.err = "" THEN NoSignal
                     ELSE FatalAt(r.err, Pop(stack))
        /\ stack' = Pop(stack)
        /\ envs' = Collect(r.envs, ns.heap, Pop(stack), Held(C2))
        /\ heap' = CollectHeap(r.envs, ns.heap, Pop(stack), Held(C2))
  /\ moduleStack' = popModuleContext(moduleStack)
  /\ inProgress' = clearModuleInProgress(inProgress, Top.path)
  /\ last' = Op("importEnd")
  /\ UNCHANGED <<status, result, circular, mongoVars>>

\* The module's program threw (eval_program has turned a control-flow
\* signal into its error): evict, rethrow, pop the context, clear the mark.
eval_import_catch ==
  /\ Unwinding
  /\ Top.kind = "module"
  /\ signal' = eval_program_signal(signal)
  /\ resultCache' = removeModuleResult(resultCache, Top.path)
  /\ Leave
  /\ moduleStack' = popModuleContext(moduleStack)
  /\ inProgress' = clearModuleInProgress(inProgress, Top.path)
  /\ last' = Handled("importCatch")
  /\ UNCHANGED <<status, result, circular, mongoVars>>

ImportStatements ==
  {[namespace |-> "ns", namedImports |-> <<"y">>, defaultBinding |-> ""]}

\* `import [ns] [exposing { y [, z] }] [default d | default ns] from ...`
ImportShapes ==
  [namespace : {"", "ns"}, namedImports : {<<>>, <<"y">>, <<"y", "z">>},
   defaultBinding : {"", "d", "ns"}]

(***************************************************************************)
(* `using mongo` (eval_using_statement) and the registry of mongoState.ts. *)
(* A connection is identified by the scoped environment of the statement   *)
(* that opened it; a database handle is an object value referring to it.   *)
(* A using frame stands for the statement's try block; it remembers the    *)
(* snapshot and the connection.                                            *)
(***************************************************************************)
ErrScheme ==
  "Mongo connection strings must start with 'mongodb://' or 'mongodb+srv://'"

DatabaseVal(id) == [type |-> "object", val |-> "MongoDatabase", env |-> id]
CollectionVal(id) == [type |-> "object", val |-> "MongoCollection", env |-> id]

captureMongoState ==
  [database |-> databaseBinding, collections |-> collectionBindings]

\* connectMongo, by the scheme of the URI: [err, open], open being the open
\* connections afterwards (a client that failed to connect is closed).
connectMongo(scheme, id) ==
  IF scheme \notin {"mongodb://", "mongodb+srv://"}
  THEN [err |-> ErrScheme, open |-> conns]
  ELSE [err |-> "", open |-> conns \cup {id}]

disconnectMongo(open, id) == open \ {id}

\* The loop that pre-creates the configured collections, from name i on.
RECURSIVE preCreateCollections(_, _, _, _)
preCreateCollections(E, scopedEnv, names, i) ==
  IF i > Len(names) THEN E
  ELSE LET E1 == IF hasBinding(E, scopedEnv, names[i])
                 THEN removeVar(E, scopedEnv, names[i]) ELSE E
       IN preCreateCollections(
            declareVar(E1, scopedEnv, names[i], CollectionVal(scopedEnv),
                       TRUE).envs,
            scopedEnv, names, i + 1)

\* `using mongo <uri> as alias with { collections: ... } { body }`, from the
\* snapshot on (the URI, database and options expressions are evaluated).
eval_using_statement(alias, scheme, collections) ==
  /\ Running
  /\ LET snapshot == captureMongoState
         scopedEnv == Len(envs) + 1
         E1 == Append(envs, NewEnvironment(CurEnv))
         c == connectMongo(scheme, scopedEnv)
         E2 == IF hasBinding(E1, scopedEnv, alias)
               THEN removeVar(E1, scopedEnv, alias) ELSE E1
         E3 == declareVar(E2, scopedEnv, alias, DatabaseVal(scopedEnv),
                          TRUE).envs
     IN IF c.err # ""
        THEN /\ databaseBinding' = ""
             /\ collectionBindings' = {}
             /\ signal' = Fatal(c.err)
             /\ UNCHANGED <<envs, stack, conns>>
        ELSE /\ Len(stack) < MaxDepth
             /\ conns' = c.open
             /\ envs' = preCreateCollections(E3, scopedEnv, collections, 1)
             /\ databaseBinding' = alias
             /\ collectionBindings' =
                  {collections[i] : i \in 1..Len(collections)}
             /\ stack' = Append(stack,
                  [kind |-> "using", env |-> scopedEnv,
                   snapshot |-> snapshot, conn |-> scopedEnv])
             /\ UNCHANGED signal
  /\ last' = Op("using")
  /\ UNCHANGED <<status, result, heap, modVars, issued, timers, lexVars>>

\* The finally clause: disconnect, clear the registry, restore the snapshot.
restoreMongoState(snapshot) == snapshot

eval_using_finally ==
  /\ Top.kind = "using"
  /\ conns' = disconnectMongo(conns, Top.conn)
  /\ databaseBinding' = restoreMongoState(Top.snapshot).database
  /\ collectionBindings' = restoreMongoState(Top.snapshot).collections
  /\ Leave

\* The body ran to its end.
eval_using_end ==
  /\ Running
  /\ eval_using_finally
  /\ last' = Op("usingEnd")
  /\ UNCHANGED <<signal, status, result, modVars, issued, timers, lexVars>>

\* The body threw, or a control-flow signal passes: finally, then on.
eval_using_throw ==
  /\ Unwinding
  /\ eval_using_finally
  /\ last' = Handled("usingThrow")
  /\ UNCHANGED <<signal, status, result, modVars, issued, timers, lexVars>>

Schemes == {"mongodb://", "http://"}
CollectionConfigs == {<<>>, <<"c">>}

(***************************************************************************)
(* `query { field op value, ... }` (eval_mongo_query_expr).  The document  *)
(* under construction is a plain JavaScript value: a number, or an object  *)
(* as the sequence of its [key, value] entries in insertion order.  A      *)
(* query frame stands for the loop over the conditions; it holds the       *)
(* document and the conditions applied so far.                             *)
(***************************************************************************)
ErrQueryOperator(operator) ==
  "Unsupported query operator '" \o operator \o "'."

PlainNull == [tag |-> "null", v |-> "", entries |-> <<>>]
PlainNumber(n) == [tag |-> "number", v |-> n, entries |-> <<>>]
PlainString(str) == [tag |-> "string", v |-> str, entries |-> <<>>]
PlainObject(entries) == [tag |-> "object", v |-> "", entries |-> entries]
\* An array: its elements as entries keyed by their index.
PlainArray(entries) == [tag |-> "array", v |-> "", entries |-> entries]
\* A conversion or check that throws msg instead of returning a value.
PlainThrow(msg) == [tag |-> "throw", v |-> msg, entries |-> <<>>]

ErrNotPlain(type) ==
  "Mongo helpers do not support runtime values of type '" \o type \o "'."

\* The keys of the documents and arrays of the programs, in the order the
\* entries of such an object are enumerated.
KeyOrder ==
  <<"0", "1", "a", "b", "matchedCount", "modifiedCount", "upsertedCount",
    "upsertedId">>

\* runtimeToPlain.  The properties of a Mongo handle and of an operation
\* chain hold native functions, which the switch rejects.
RECURSIVE runtimeToPlain(_, _)
runtimeToPlain(H, value) ==
  IF value.type = "null" THEN PlainNull
  ELSE IF value.type = "number" THEN PlainNumber(value.val)
  ELSE IF value.type = "string" THEN PlainString(value.val)
  ELSE IF value.type = "object"
          /\ value.val \in {"MongoDatabase", "MongoCollection"}
  THEN PlainThrow(ErrNotPlain("native-fn"))
  ELSE IF value.type \in {"array", "object"}
  THEN LET props == H[value.env].properties
           sub == [k \in DOMAIN props |-> runtimeToPlain(H, props[k])]
           keys == SelectSeq(KeyOrder, LAMBDA k : k \in DOMAIN props)
           entries == [i \in 1..Len(keys) |->
                         [key |-> keys[i], value |-> sub[keys[i]]]]
       IN IF \E k \in DOMAIN props : sub[k].tag = "throw"
          THEN sub[CHOOSE k \in DOMAIN props : sub[k].tag = "throw"]
          ELSE IF value.type = "array" THEN PlainArray(entries)
          ELSE PlainObject(entries)
  ELSE PlainThrow(ErrNotPlain(value.type))

\* plainToRuntime allocates the objects and arrays: [heap, value].
RECURSIVE plainEntries(_, _, _, _)
plainToRuntime(H, input) ==
  IF input.tag = "null" THEN [heap |-> H, value |-> MK_NULL]
  ELSE IF input.tag = "number" THEN [heap |-> H, value |-> MK_NUMBER(input.v)]
  ELSE IF input.tag = "string" THEN [heap |-> H, value |-> MK_STRING(input.v)]
  ELSE LET r == plainEntries(H, input.entries, EmptyMap, 1) IN
         [heap |-> Append(r.heap, [schemaName |-> "", classEnv |-> 0,
                                   meta |-> NoMeta, properties |-> r.props]),
          value |-> IF input.tag = "array" THEN MK_ARRAY(Len(r.heap) + 1)
                    ELSE ObjectVal("", Len(r.heap) + 1)]
plainEntries(H, entries, props, i) ==
  IF i > Len(entries) THEN [heap |-> H, props |-> props]
  ELSE LET r == plainToRuntime(H, entries[i].value) IN
         plainEntries(r.heap, entries,
                      (entries[i].key :> r.value) @@ props, i + 1)

\* obj[key] of a plain object: the index of the entry, 0 when undefined.
IndexOf(entries, key) ==
  IF \E i \in 1..Len(entries) : entries[i].key = key
  THEN CHOOSE i \in 1..Len(entries) : entries[i].key = key
  ELSE 0

\* obj[key] = value.
Put(entries, key, value) ==
  IF IndexOf(entries, key) = 0
  THEN Append(entries, [key |-> key, value |-> value])
  ELSE [entries EXCEPT ![IndexOf(entries, key)].value = value]

\* !existing, for an entry that is there.
Falsy(plain) ==
  \/ plain.tag = "null"
  \/ plain.tag = "number" /\ plain.v = "0"
  \/ plain.tag = "string" /\ plain.v = ""

\* "" for an operator the switch does not know (it throws).
mapComparisonOperator(operator) ==
  IF operator = "!=" THEN "$ne"
  ELSE IF operator = "<" THEN "$lt"
  ELSE IF operator = "<=" THEN "$lte"
  ELSE IF operator = ">" THEN "$gt"
  ELSE IF operator = ">=" THEN "$gte"
  ELSE ""

setEqualityCondition(query, key, value) ==
  LET i == IndexOf(query, key) IN
  IF i = 0 \/ Falsy(query[i].value) THEN Put(query, key, value)
  ELSE IF query[i].value.tag # "object" THEN Put(query, key, value)
  ELSE Put(query, key,
           PlainObject(Put(query[i].value.entries, "$eq", value)))

applyQueryCondition(query, condition, value) ==
  LET key == condition.field
      mongoOperator == mapComparisonOperator(condition.operator)
      i == IndexOf(query, key)
  IN IF condition.operator = "==" THEN setEqualityCondition(query, key, value)
     ELSE IF i = 0 \/ Falsy(query[i].value) \/ query[i].value.tag # "object"
     THEN Put(query, key,
              PlainObject(<<[key |-> mongoOperator, value |-> value]>>))
     ELSE Put(query, key,
              PlainObject(Put(query[i].value.entries, mongoOperator, value)))

\* `query {`: the document starts empty.
eval_mongo_query_expr ==
  /\ Running
  /\ Top.kind # "query"
  /\ Len(stack) < MaxDepth
  /\ stack' = Append(stack, [kind |-> "query", env |-> CurEnv,
                             query |-> <<>>, conditions |-> <<>>])
  /\ last' = Op("query")
  /\ UNCHANGED <<envs, signal, status, result, heap, modVars, mongoVars>>

\* One turn of the loop: the condition's value is evaluated and the
\* condition applied to the document.
eval_mongo_query_condition(condition) ==
  /\ Running
  /\ Top.kind = "query"
  /\ Len(Top.conditions) < MaxConditions
  /\ IF condition.operator # "=="
        /\ mapComparisonOperator(condition.operator) = ""
     THEN /\ signal' = Fatal(ErrQueryOperator(condition.operator))
          /\ UNCHANGED stack
     ELSE /\ stack' = [stack EXCEPT ![Len(stack)] =
               [@ EXCEPT !.query = applyQueryCondition(
                                     @, condition,
                                     runtimeToPlain(heap, condition.value)),
                         !.conditions = Append(@, condition)]]
          /\ UNCHANGED signal
  /\ last' = Op("condition")
  /\ UNCHANGED <<envs, status, result, heap, modVars, mongoVars>>

\* `}`: the expression evaluates to plainToRuntime(query).  The value the
\* previous expression left is no longer referenced.
eval_mongo_query_end ==
  /\ Running
  /\ Top.kind = "query"
  /\ LET H == CollectHeap(envs, heap, Pop(stack),
                          Held(resultCache) \ {result})
         r == plainToRuntime(H, PlainObject(Top.query))
     IN /\ heap' = r.heap
        /\ result' = r.value
  /\ stack' = Pop(stack)
  /\ last' = Op("queryEnd")
  /\ UNCHANGED <<envs, signal, status, modVars, mongoVars>>

\* Evaluating a condition threw: the expression is left.
eval_mongo_query_throw ==
  /\ Unwinding
  /\ Top.kind = "query"
  /\ Leave
  /\ last' = Handled("queryThrow")
  /\ UNCHANGED <<signal, status, result, modVars, mongoVars>>

QueryConditions ==
  {[field |-> f, operator |-> o, value |-> MK_NUMBER(v)] :
     f \in {"a", "b"}, o \in {"==", ">", "!="}, v \in {"0", "1", "2"}}
    \cup {[field |-> "a", operator |-> "=~", value |-> MK_NUMBER("1")]}

(***************************************************************************)
(* DSL operations `target op argument` and `target update where filter set *)
(* update` (executeMongoOperation, executeMongoUpdate).  The core performs *)
(* no I/O: an operation ends in one call [collection, method, args] to the *)
(* driver of the collection, and `issued` is the last such call.  The      *)
(* collections have no defaults (projection, sort, limit).                 *)
(***************************************************************************)
ErrNotTarget ==
  "Mongo operations expect a collection handle or operation chain."
ErrClosed ==
  "The Mongo database connection has been closed. Reconnect before performing operations."
ErrUnsupportedOperator(operator) ==
  "Unsupported Mongo operator '" \o operator \o "'."
ErrNotRecord(context) == context \o " must be an object."
ErrPipeline ==
  "Aggregate operator '|>' expects an array of pipeline stages."
ErrNoArrayProperty(key) == "Property '" \o key \o "' is not defined on arrays."
ErrNoMember(key, type) ==
  "Cannot access property '" \o key \o "' on value of type '" \o type \o "'."

isMongoDatabase(value) ==
  value.type = "object" /\ value.val = "MongoDatabase"
isMongoCollection(value) ==
  value.type = "object" /\ value.val = "MongoCollection"
isOperationResult(H, value) ==
  /\ value.type = "object"
  /\ ~isMongoDatabase(value) /\ ~isMongoCollection(value)
  /\ H[value.env].meta # NoMeta

\* [err, collection]
resolveCollectionTarget(H, value) ==
  IF isMongoCollection(value) THEN [err |-> "", collection |-> value]
  ELSE IF isOperationResult(H, value)
  THEN [err |-> "", collection |-> H[value.env].meta.collection]
  ELSE [err |-> ErrNotTarget, collection |-> MK_NULL]

unwrapOperationValue_Keep(H, value) == value

unwrapOperationValue(H, value) ==
  IF isOperationResult(H, value) THEN H[value.env].meta.lastResult ELSE value

ensureRecord(value, context) ==
  IF value.tag \in {"null", "object", "throw"}
  THEN IF value.tag = "null" THEN PlainObject(<<>>) ELSE value
  ELSE PlainThrow(ErrNotRecord(context))

\* What an operation comes to: the call it issues, or the message it throws
\* before any call.
Issue(collection, method, args) ==
  [err |-> "", collection |-> collection,
   call |-> [collection |-> collection.env, method |-> method,
             args |-> args]]
Refuse(msg) == [err |-> msg, collection |-> MK_NULL, call |-> NoCall]

performInsert(H, collection, argument) ==
  LET value == runtimeToPlain(H, unwrapOperationValue(H, argument))
      documents ==
        [i \in 1..Len(value.entries) |->
           [key |-> value.entries[i].key,
            value |-> ensureRecord(
                        value.entries[i].value,
                        "insertMany document at index "
                          \o value.entries[i].key)]]
      bad == {i \in 1..Len(value.entries) : documents[i].value.tag = "throw"}
      document == ensureRecord(value, "insert document")
  IN IF value.tag = "throw" THEN Refuse(value.v)
     ELSE IF value.tag = "array"
     THEN IF bad # {}
          THEN Refuse(documents[CHOOSE i \in bad :
                                  \A j \in bad : i <= j].value.v)
          ELSE Issue(collection, "insertMany", <<PlainArray(documents)>>)
     ELSE IF document.tag = "throw" THEN Refuse(document.v)
     ELSE Issue(collection, "insertOne", <<document>>)

\* The filter of a delete or a find: {} for null.
filterOf(H, argument, context) ==
  LET raw == unwrapOperationValue(H, argument) IN
  IF raw.type = "null" THEN PlainObject(<<>>)
  ELSE ensureRecord(runtimeToPlain(H, raw), context)

performDelete(H, collection, argument, many) ==
  LET filter == filterOf(H, argument, "delete filter") IN
  IF filter.tag = "throw" THEN Refuse(filter.v)
  ELSE Issue(collection, IF many THEN "deleteMany" ELSE "deleteOne",
             <<filter>>)

performFindOne(H, collection, argument) ==
  LET filter == filterOf(H, argument, "findOne filter") IN
  IF filter.tag = "throw" THEN Refuse(filter.v)
  ELSE Issue(collection, "findOne", <<filter, PlainObject(<<>>)>>)

performFindMany(H, collection, argument) ==
  LET filter == filterOf(H, argument, "find filter") IN
  IF filter.tag = "throw" THEN Refuse(filter.v)
  ELSE Issue(collection, "find", <<filter, PlainObject(<<>>)>>)

performAggregate(H, collection, argument) ==
  LET pipelinePlain == runtimeToPlain(H, unwrapOperationValue(H, argument))
  IN IF pipelinePlain.tag = "throw" THEN Refuse(pipelinePlain.v)
     ELSE IF pipelinePlain.tag # "array" THEN Refuse(ErrPipeline)
     ELSE Issue(collection, "aggregate", <<pipelinePlain>>)

executeMongoOperation(H, open, target, operator, argument) ==
  LET t == resolveCollectionTarget(H, target) IN
  IF t.err # "" THEN Refuse(t.err)
  ELSE IF t.collection.env \notin open THEN Refuse(ErrClosed)
  ELSE IF operator = "<-" THEN performInsert(H, t.collection, argument)
  ELSE IF operator = "!"
  THEN performDelete(H, t.collection, argument, FALSE)
  ELSE IF operator = "!!"
  THEN performDelete(H, t.collection, argument, TRUE)
  ELSE IF operator = "?" THEN performFindOne(H, t.collection, argument)
  ELSE IF operator = "??" THEN performFindMany(H, t.collection, argument)
  ELSE IF operator = "|>" THEN performAggregate(H, t.collection, argument)
  ELSE Refuse(ErrUnsupportedOperator(operator))

\* The statement has no `with <options>`.
executeMongoUpdate(H, open, target, filterVal, updateVal, many) ==
  LET t == resolveCollectionTarget(H, target)
      filterPlain ==
        ensureRecord(runtimeToPlain(H, unwrapOperationValue(H, filterVal)),
                     "update filter")
      updatePlain ==
        ensureRecord(runtimeToPlain(H, unwrapOperationValue(H, updateVal)),
                     "update document")
  IN IF t.err # "" THEN Refuse(t.err)
     ELSE IF t.collection.env \notin open THEN Refuse(ErrClosed)
     ELSE IF filterPlain.tag = "throw" THEN Refuse(filterPlain.v)
     ELSE IF updatePlain.tag = "throw" THEN Refuse(updatePlain.v)
     ELSE Issue(t.collection, IF many THEN "updateMany" ELSE "updateOne",
                <<filterPlain, updatePlain>>)

\* The document the driver's collections hold.
Document == PlainObject(<<[key |-> "a", value |-> PlainNumber("1")]>>)

\* What the driver may answer to a call, as the operation hands it on (the
\* inserted id or one id per document, the deleted count, the document
\* found or null, the documents found, makeUpdateResult of the answer).
Results(call) ==
  IF call.method = "insertOne" THEN {PlainString("id")}
  ELSE IF call.method = "insertMany"
  THEN {PlainArray([i \in 1..Len(call.args[1].entries) |->
                      [key |-> call.args[1].entries[i].key,
                       value |-> PlainString("id")]])}
  ELSE IF call.method \in {"deleteOne", "deleteMany"}
  THEN {PlainNumber("0"), PlainNumber("1")}
  ELSE IF call.method = "findOne" THEN {PlainNull, Document}
  ELSE IF call.method \in {"find", "aggregate"}
  THEN {PlainArray(<<>>),
        PlainArray(<<[key |-> "0", value |-> Document]>>)}
  ELSE {PlainObject(<<[key |-> "matchedCount", value |-> PlainNumber(n)],
                      [key |-> "modifiedCount", value |-> PlainNumber(n)],
                      [key |-> "upsertedCount", value |-> PlainNumber("0")],
                      [key |-> "upsertedId", value |-> PlainNull]>>) :
          n \in {"0", "1"}}

ChainMethods ==
  {"unwrap", "valueOf", "toJSON", "thenInsert", "thenInsertMany",
   "thenDelete", "thenDeleteMany", "thenFind", "thenFindMany",
   "thenAggregate", "thenUpdate", "thenUpdateMany"}

\* [heap, value]
createOperationResult(H, collectionValue, lastResult) ==
  [heap |-> Append(H,
      [schemaName |-> "MongoOperation", classEnv |-> 0,
       meta |-> [collection |-> collectionValue, lastResult |-> lastResult],
       properties |->
         ("value" :> lastResult) @@ ("collection" :> collectionValue)
           @@ [n \in ChainMethods |-> MK_NATIVE_FN(n)]]),
   value |-> ObjectVal("MongoOperation", Len(H) + 1)]

\* eval_member_expr of `object.key` for a key that is not computed, the
\* object being evaluated: [err, value].
eval_member_expr(H, target, key) ==
  IF isMongoDatabase(target)
  THEN [err |-> "", value |-> CollectionVal(target.env)]
  ELSE IF isMongoCollection(target) THEN [err |-> "", value |-> MK_NULL]
  ELSE IF target.type = "object"
  THEN [err |-> "",
        value |-> IF key \in DOMAIN H[target.env].properties
                  THEN H[target.env].properties[key] ELSE MK_NULL]
  ELSE IF target.type = "array"
  THEN [err |-> ErrNoArrayProperty(key), value |-> MK_NULL]
  ELSE [err |-> ErrNoMember(key, target.type), value |-> MK_NULL]

\* The operand expressions of the programs.
Identifier(symbol) ==
  [kind |-> "Identifier", symbol |-> symbol, property |-> ""]
MemberExpr(symbol, property) ==
  [kind |-> "MemberExpr", symbol |-> symbol, property |-> property]
NullLiteral == [kind |-> "NullLiteral", symbol |-> "", property |-> ""]
NumericLiteral == [kind |-> "NumericLiteral", symbol |-> "", property |-> ""]
ObjectLiteral == [kind |-> "ObjectLiteral", symbol |-> "", property |-> ""]

\* evaluate of an operand in environment e: [err, heap, value].  The
\* numeric literal is 1 and the object literal { a: 1 }.
evaluate(E, H, e, expr) ==
  LET v == lookupVar(E, e, expr.symbol)
      m == eval_member_expr(H, v.value, expr.property)
      o == eval_object_expr(H, "a" :> MK_NUMBER("1"))
  IN IF expr.kind = "NullLiteral"
     THEN [err |-> "", heap |-> H, value |-> MK_NULL]
     ELSE IF expr.kind = "NumericLiteral"
     THEN [err |-> "", heap |-> H, value |-> MK_NUMBER("1")]
     ELSE IF expr.kind = "ObjectLiteral"
     THEN [err |-> "", heap |-> o.heap, value |-> o.value]
     ELSE IF v.err # "" THEN [err |-> v.err, heap |-> H, value |-> MK_NULL]
     ELSE IF expr.kind = "Identifier"
     THEN [err |-> "", heap |-> H, value |-> v.value]
     ELSE [err |-> m.err, heap |-> H, value |-> m.value]

\* The operation is over: it threw (x.err), or the driver answered `plain`
\* and the chain is declared as `identifier`.  H is the heap with the
\* operands; `name` tells the statement.
finishOperation(identifier, H, x, plain, name) ==
  /\ IF x.err # ""
     THEN /\ signal' = Fatal(x.err)
          /\ UNCHANGED <<envs, heap, issued>>
     ELSE LET r == plainToRuntime(H, plain)
              c == createOperationResult(r.heap, x.collection, r.value)
              d == declareVar(envs, CurEnv, identifier, c.value, FALSE)
          IN /\ issued' = x.call
             /\ envs' = d.envs
             /\ heap' = CollectHeap(d.envs, c.heap, stack,
                                    Held(resultCache))
             /\ signal' = Raised(d)
  /\ last' = Op(name)
  /\ UNCHANGED <<stack, status, result, modVars, databaseBinding,
                 collectionBindings, conns, timers, lexVars>>

\* `declare identifier = target operator argument;`
eval_mongo_operation_expr(identifier, target, operator, argument) ==
  /\ Running
  /\ LET t == evaluate(envs, heap, CurEnv, target)
         a == evaluate(envs, t.heap, CurEnv, argument)
         x == IF t.err # "" THEN Refuse(t.err)
              ELSE IF a.err # "" THEN Refuse(a.err)
              ELSE executeMongoOperation(a.heap, conns, t.value, operator,
                                         a.value)
     IN \E plain \in Results(x.call) :
          finishOperation(identifier, a.heap, x, plain,
                          IF a.err = "" /\ isOperationResult(a.heap, a.value)
                          THEN "operationOnChain" ELSE "operation")

\* `declare identifier = target update [many] where filter set update;`
eval_mongo_update_expr(identifier, target, filter, update, many) ==
  /\ Running
  /\ LET t == evaluate(envs, heap, CurEnv, target)
         f == evaluate(envs, t.heap, CurEnv, filter)
         u == evaluate(envs, f.heap, CurEnv, update)
         x == IF t.err # "" THEN Refuse(t.err)
              ELSE IF f.err # "" THEN Refuse(f.err)
              ELSE IF u.err # "" THEN Refuse(u.err)
              ELSE executeMongoUpdate(u.heap, conns, t.value, f.value,
                                      u.value, many)
     IN \E plain \in Results(x.call) :
          finishOperation(identifier, u.heap, x, plain,
                          IF f.err = "" /\ u.err = ""
                             /\ (isOperationResult(u.heap, f.value)
                                   \/ isOperationResult(u.heap, u.value))
                          THEN "updateOnChain" ELSE "update")

MongoOperators == {"<-", "!", "!!", "?", "??", "|>"}
Targets == {Identifier("c"), Identifier("r"), MemberExpr("r", "value")}
Arguments ==
  {NullLiteral, NumericLiteral, ObjectLiteral, Identifier("r"),
   MemberExpr("r", "value")}

(***************************************************************************)
(* `database ident = expr;`, `collection ident;` and `disconnect()`: the   *)
(* statements that keep the registry of mongoState.ts and the bindings it  *)
(* names.                                                                  *)
(***************************************************************************)
ErrDatabaseExpects ==
  "database expects a Mongo database handle. Use connect(uri, dbName) to obtain one."
ErrCollectionNoDatabase ==
  "collection requires an active database. Use 'database connect(...)' first."
ErrBindingUnavailable == "The active database binding is no longer available."
ErrBindingInvalid == "The active database binding is no longer valid."
ErrDisconnectNoDatabase ==
  "disconnect requires a database handle or an active database established via the database keyword."
ErrDisconnectExpects ==
  "disconnect expects a Mongo database handle produced by connect."

\* env.removeVar(name) for each of the names.
RECURSIVE removeVars(_, _, _)
removeVars(E, e, names) ==
  IF names = {} THEN E
  ELSE LET n == CHOOSE m \in names : TRUE
       IN removeVars(removeVar(E, e, n), e, names \ {n})

eval_database_statement(identifier, initializer) ==
  /\ Running
  /\ LET handle == evaluate(envs, heap, CurEnv, initializer)
         previousBinding == databaseBinding
         E1 == IF previousBinding # ""
                  /\ hasBinding(envs, CurEnv, previousBinding)
               THEN removeVar(envs, CurEnv, previousBinding) ELSE envs
         E2 == removeVars(E1, CurEnv, collectionBindings)
         E3 == IF hasBinding(E2, CurEnv, identifier)
               THEN removeVar(E2, CurEnv, identifier) ELSE E2
         d == declareVar(E3, CurEnv, identifier, handle.value, TRUE)
     IN IF handle.err # ""
        THEN /\ signal' = Fatal(handle.err)
             /\ UNCHANGED <<envs, databaseBinding, collectionBindings>>
        ELSE IF ~isMongoDatabase(handle.value)
        THEN /\ signal' = Fatal(ErrDatabaseExpects)
             /\ UNCHANGED <<envs, databaseBinding, collectionBindings>>
        ELSE /\ envs' = d.envs
             /\ signal' = Raised(d)
             /\ databaseBinding' = IF d.err = "" THEN identifier ELSE ""
             /\ collectionBindings' = {}
  /\ last' = Op("database")
  /\ UNCHANGED <<stack, status, result, heap, modVars, conns, issued,
                 timers, lexVars>>

\* `collection ident;`: the collection of that name of the active database.
eval_collection_statement(bindingName) ==
  /\ Running
  /\ LET dbValue == lookupVar(envs, CurEnv, databaseBinding).value
         d == declareVar(removeVar(envs, CurEnv, bindingName), CurEnv,
                         bindingName, CollectionVal(dbValue.env), TRUE)
     IN IF databaseBinding = ""
        THEN /\ signal' = Fatal(ErrCollectionNoDatabase)
             /\ UNCHANGED <<envs, collectionBindings>>
        ELSE IF ~hasBinding(envs, CurEnv, databaseBinding)
        THEN /\ signal' = Fatal(ErrBindingUnavailable)
             /\ UNCHANGED <<envs, collectionBindings>>
        ELSE IF ~isMongoDatabase(dbValue)
        THEN /\ signal' = Fatal(ErrBindingInvalid)
             /\ UNCHANGED <<envs, collectionBindings>>
        ELSE /\ envs' = d.envs
             /\ signal' = Raised(d)
             /\ collectionBindings' = collectionBindings \cup {bindingName}
  /\ last' = Op("collection")
  /\ UNCHANGED <<stack, status, result, heap, modVars, databaseBinding,
                 conns, issued, timers, lexVars>>

\* `await disconnect();`: the call of the native function with no argument
\* and the continuation of the promise it returns.
nativeDisconnect ==
  /\ Running
  /\ LET bindingToClear == databaseBinding
         databaseValue == lookupVar(envs, CurEnv, bindingToClear).value
     IN IF bindingToClear = ""
        THEN /\ signal' = Fatal(ErrDisconnectNoDatabase)
             /\ UNCHANGED <<envs, result, mongoVars>>
        ELSE IF ~hasBinding(envs, CurEnv, bindingToClear)
        THEN /\ signal' = Fatal(ErrBindingUnavailable)
             /\ UNCHANGED <<envs, result, mongoVars>>
        ELSE IF ~isMongoDatabase(databaseValue)
        THEN /\ signal' = Fatal(ErrDisconnectExpects)
             /\ UNCHANGED <<envs, result, mongoVars>>
        ELSE /\ conns' = disconnectMongo(conns, databaseValue.env)
             /\ envs' = removeVars(removeVar(envs, CurEnv, bindingToClear),
                                   CurEnv, collectionBindings)
             /\ databaseBinding' = ""
             /\ collectionBindings' = {}
             /\ result' = MK_NULL
             /\ UNCHANGED <<signal, issued>>
  /\ last' = Op("disconnect")
  /\ UNCHANGED <<stack, status, heap, modVars, timers, lexVars>>

\* `declare identifier = source;`
eval_var_declaration_copy(identifier, source) ==
  /\ Running
  /\ hasBinding(envs, CurEnv, source)
  /\ eval_var_declaration(identifier,
                          lookupVar(envs, CurEnv, source).value, FALSE)

(***************************************************************************)
(* Asynchrony (functions.ts nativeSchedule, nativeSleep, nativeConnect;    *)
(* eval_await_expression).  The host runs one task at a time: a timer      *)
(* callback (setTimeout) starts only when no JavaScript is running, that   *)
(* is when the interpreter waits for a promise that a timer or the network *)
(* resolves.  The interpreter's own awaits of evaluate() are resolved in   *)
(* microtasks and let no timer in.  `timers` holds every timer created, in *)
(* creation order: a `schedule` timer with its callable and the calling    *)
(* environment, or a `sleep` timer that resolves the promise of its index. *)
(* A suspended activation is a frame on the stack ("await", "native"); a   *)
(* callback runs in the frames above it ("timer" for the arrow function    *)
(* with its .catch, "func" for invokeCallable).  The programs await at top *)
(* level only, and callbacks that start once the program is over are left  *)
(* out.                                                                    *)
(***************************************************************************)
ErrScheduleCallable ==
  "schedule expects a function or native function as its second argument."
ErrConnectFailed == "Failed to connect to MongoDB."

MK_PROMISE(promise) == [type |-> "promise", val |-> "", env |-> promise]

\* The number setTimeout returns for the timer created as the i-th.
TimerId(i) == IF i = 1 THEN "1" ELSE IF i = 2 THEN "2" ELSE "3"

Pending(i) == timers[i].state = "pending"
Fire(i) == [timers EXCEPT ![i].state = "fired"]

\* Whether the host may start a task.  Variant: a timer preempts the
\* running program.
EventLoopIdle_Preemptive == status = "running" /\ signal.kind = "none"

EventLoopIdle ==
  /\ status = "running" /\ signal.kind = "none"
  /\ stack # <<>> /\ Top.kind \in Suspended

\* `schedule(0, callee);`
nativeSchedule(callee) ==
  /\ Running
  /\ Len(timers) < MaxTimers
  /\ LET r == lookupVar(envs, CurEnv, callee)
         callable == r.value
     IN IF r.err # ""
        THEN /\ signal' = Fatal(r.err)
             /\ UNCHANGED <<result, timers>>
        ELSE IF callable.type \notin {"function", "native-fn"}
        THEN /\ signal' = Fatal(ErrScheduleCallable)
             /\ UNCHANGED <<result, timers>>
        ELSE /\ timers' = Append(timers,
                  [kind |-> "schedule", callable |-> callable,
                   env |-> CurEnv, state |-> "pending"])
             /\ result' = MK_NUMBER(TimerId(Len(timers) + 1))
             /\ UNCHANGED signal
  /\ last' = Op("schedule")
  /\ UNCHANGED <<envs, stack, status, heap, modVars, databaseBinding,
                 collectionBindings, conns, issued, lexVars>>

\* sleep(0): the timers with the new one, and the promise it resolves.
nativeSleep(T) ==
  [timers |-> Append(T, [kind |-> "sleep", callable |-> MK_NULL, env |-> 0,
                         state |-> "pending"]),
   value |-> MK_PROMISE(Len(T) + 1)]

\* `declare identifier = sleep(0);`: the promise is a value like another.
eval_var_declaration_sleep(identifier) ==
  /\ Running
  /\ Len(timers) < MaxTimers
  /\ LET p == nativeSleep(timers)
         r == declareVar(envs, CurEnv, identifier, p.value, FALSE)
     IN /\ timers' = p.timers
        /\ envs' = r.envs
        /\ signal' = Raised(r)
  /\ last' = Op("declare")
  /\ UNCHANGED <<stack, status, result, heap, modVars, databaseBinding,
                 collectionBindings, conns, issued, lexVars>>

\* `await argument;` with argument `sleep(0)` (kind "CallExpr") or an
\* identifier: a pending promise suspends, a resolved one yields its value
\* and any other value is the result.
SleepCall == [kind |-> "CallExpr", symbol |-> "sleep", property |-> ""]

eval_await_expression(argument) ==
  /\ Running
  /\ argument.kind = "CallExpr" => Len(timers) < MaxTimers
  /\ LET r == IF argument.kind = "CallExpr"
              THEN Ok(envs, nativeSleep(timers).value)
              ELSE lookupVar(envs, CurEnv, argument.symbol)
         T == IF argument.kind = "CallExpr"
              THEN nativeSleep(timers).timers ELSE timers
         value == r.value
     IN IF r.err # ""
        THEN /\ signal' = Fatal(r.err)
             /\ UNCHANGED <<stack, result, timers>>
        ELSE IF value.type = "promise" /\ T[value.env].state = "pending"
        THEN /\ timers' = T
             /\ stack' = Append(stack, [kind |-> "await", env |-> CurEnv,
                                        promise |-> value.env])
             /\ UNCHANGED <<signal, result>>
        ELSE /\ result' = IF value.type = "promise" THEN MK_NULL ELSE value
             /\ UNCHANGED <<stack, signal, timers>>
  /\ last' = Op("await")
  /\ UNCHANGED <<envs, status, heap, modVars, databaseBinding,
                 collectionBindings, conns, issued, lexVars>>

\* The timer of sleep i expires: the promise is resolved, and the
\* activation that awaits it goes on with null.
nativeSleep_timeout(i) ==
  /\ EventLoopIdle
  /\ i \in DOMAIN timers /\ timers[i].kind = "sleep" /\ Pending(i)
  /\ timers' = Fire(i)
  /\ IF Top.kind = "await" /\ Top.promise = i
     THEN /\ stack' = Pop(stack)
          /\ result' = MK_NULL
          /\ last' = Op("resume")
     ELSE /\ UNCHANGED <<stack, result>>
          /\ last' = Op("resolve")
  /\ UNCHANGED <<envs, signal, status, heap, modVars, databaseBinding,
                 collectionBindings, conns, issued, lexVars>>

\* The timer of schedule i expires: invokeCallable(callable, [], env), whose
\* rejection is logged and dropped.
nativeSchedule_timeout(i) ==
  /\ EventLoopIdle
  /\ i \in DOMAIN timers /\ timers[i].kind = "schedule" /\ Pending(i)
  /\ timers' = Fire(i)
  /\ LET fn == timers[i].callable
         scope == Len(envs) + 1
         parameters == FunctionParameters(fn.val)
         b == bindParameters(
                Append(envs, NewEnvironment(ScopeParent(fn, timers[i].env))),
                scope, fn.val, parameters, <<>>, 1)
     IN IF fn.type = "native-fn" \/ b.err # ""
        THEN UNCHANGED <<envs, stack>>
        ELSE /\ envs' = b.envs
             /\ stack' = stack \o
                  <<[kind |-> "timer", env |-> timers[i].env],
                    [kind |-> "func", env |-> scope,
                     caller |-> timers[i].env, decl |-> fn.env]>>
  /\ last' = Op("timer")
  /\ UNCHANGED <<signal, status, result, heap, modVars, databaseBinding,
                 collectionBindings, conns, issued, lexVars>>

\* The callback's promise is fulfilled.
nativeSchedule_end ==
  /\ Running
  /\ Top.kind = "timer"
  /\ Leave
  /\ last' = Op("timerEnd")
  /\ UNCHANGED <<signal, status, result, modVars, mongoVars>>

\* The callback's promise is rejected: .catch logs the error.
nativeSchedule_catch ==
  /\ Unwinding
  /\ Top.kind = "timer"
  /\ Leave
  /\ signal' = NoSignal
  /\ last' = Handled("timerCatch")
  /\ UNCHANGED <<status, result, modVars, mongoVars>>

\* `connect(uri);`: the native function returns a JavaScript promise, which
\* invokeCallable awaits.
nativeConnect(scheme) ==
  /\ Running
  /\ IF connectMongo(scheme, 0).err # ""
     THEN /\ signal' = Fatal(connectMongo(scheme, 0).err)
          /\ UNCHANGED stack
     ELSE /\ stack' = Append(stack, [kind |-> "native", env |-> CurEnv])
          /\ UNCHANGED signal
  /\ last' = Op("connect")
  /\ UNCHANGED <<envs, status, result, heap, modVars, mongoVars>>

\* The driver answers: the call returns the database handle, or throws.
nativeConnect_settle(connected) ==
  /\ EventLoopIdle
  /\ Top.kind = "native"
  /\ stack' = Pop(stack)
  /\ IF connected
     THEN /\ conns' = connectMongo("mongodb://", Len(envs) + 1).open
          /\ result' = DatabaseVal(Len(envs) + 1)
          /\ UNCHANGED signal
     ELSE /\ signal' = FatalAt(ErrConnectFailed, Pop(stack))
          /\ UNCHANGED <<conns, result>>
  /\ last' = Op("connected")
  /\ UNCHANGED <<envs, status, heap, modVars, databaseBinding,
                 collectionBindings, issued, timers, lexVars>>

(***************************************************************************)
(* `use collection ident;` and `disconnect();` without await               *)
(* (eval_use_collection_statement, nativeDisconnect).  The close of the    *)
(* connection is input/output: its promise is settled by the host, and the *)
(* reaction that nativeDisconnect chained to it runs when the host has a   *)
(* turn.  A pending reaction is a timer of kind "cleanup" that holds the   *)
(* environment and the binding name captured by the call.                  *)
(***************************************************************************)
ErrNotCollection(bindingName) ==
  "Binding '" \o bindingName \o "' exists but is not a Mongo collection."
ErrUseCollectionNoDatabase ==
  "use collection requires an active database. Use 'database' or 'using mongo' first."
ErrBindingNotDatabase == "The active database binding is not a Mongo database."

\* `use collection ident;` without options.
eval_use_collection_statement(bindingName) ==
  /\ Running
  /\ IF hasBinding(envs, CurEnv, bindingName)
     THEN /\ signal' =
               IF isMongoCollection(lookupVar(envs, CurEnv, bindingName).value)
               THEN NoSignal ELSE Fatal(ErrNotCollection(bindingName))
          /\ UNCHANGED <<envs, collectionBindings>>
     ELSE LET dbValue == lookupVar(envs, CurEnv, databaseBinding).value
              d == declareVar(removeVar(envs, CurEnv, bindingName), CurEnv,
                              bindingName, CollectionVal(dbValue.env), TRUE)
          IN IF databaseBinding = ""
             THEN /\ signal' = Fatal(ErrUseCollectionNoDatabase)
                  /\ UNCHANGED <<envs, collectionBindings>>
             ELSE IF ~hasBinding(envs, CurEnv, databaseBinding)
             THEN /\ signal' = Fatal(ErrBindingUnavailable)
                  /\ UNCHANGED <<envs, collectionBindings>>
             ELSE IF ~isMongoDatabase(dbValue)
             THEN /\ signal' = Fatal(ErrBindingNotDatabase)
                  /\ UNCHANGED <<envs, collectionBindings>>
             ELSE /\ envs' = d.envs
                  /\ signal' = Raised(d)
                  /\ collectionBindings' = collectionBindings \cup {bindingName}
  /\ last' = Op("useCollection")
  /\ UNCHANGED <<stack, status, result, heap, modVars, databaseBinding,
                 conns, issued, timers, lexVars>>

\* `disconnect();` : the checks, the start of the close and the promise.
nativeDisconnect_call ==
  /\ Running
  /\ Len(timers) < MaxTimers
  /\ LET bindingToClear == databaseBinding
         databaseValue == lookupVar(envs, CurEnv, bindingToClear).value
     IN IF bindingToClear = ""
        THEN /\ signal' = Fatal(ErrDisconnectNoDatabase)
             /\ UNCHANGED <<result, timers>>
        ELSE IF ~hasBinding(envs, CurEnv, bindingToClear)
        THEN /\ signal' = Fatal(ErrBindingUnavailable)
             /\ UNCHANGED <<result, timers>>
        ELSE IF ~isMongoDatabase(databaseValue)
        THEN /\ signal' = Fatal(ErrDisconnectExpects)
             /\ UNCHANGED <<result, timers>>
        ELSE /\ timers' = Append(timers,
                  [kind |-> "cleanup", callable |-> databaseValue,
                   env |-> CurEnv, state |-> "pending",
                   binding |-> bindingToClear])
             /\ result' = MK_PROMISE(Len(timers) + 1)
             /\ UNCHANGED signal
  /\ last' = Op("disconnect")
  /\ UNCHANGED <<envs, stack, status, heap, modVars, databaseBinding,
                 collectionBindings, conns, issued, lexVars>>

\* What the reaction clears: the registry as it is when the reaction runs.
nativeDisconnect_cleared(bindingToClear) ==
  [bindings |-> {bindingToClear}, collections |-> collectionBindings,
   registry |-> TRUE]

\* The close is done: the connection is closed and the reaction runs.
nativeDisconnect_then(i) ==
  /\ EventLoopIdle
  /\ i \in DOMAIN timers /\ timers[i].kind = "cleanup" /\ Pending(i)
  /\ timers' = Fire(i)
  /\ conns' = disconnectMongo(conns, timers[i].callable.env)
  /\ LET c == nativeDisconnect_cleared(timers[i].binding)
     IN /\ envs' = removeVars(removeVars(envs, timers[i].env, c.bindings),
                              timers[i].env, c.collections)
        /\ databaseBinding' = IF c.registry THEN "" ELSE databaseBinding
        /\ collectionBindings' = collectionBindings \ c.collections
  /\ last' = Op("cleanup")
  /\ UNCHANGED <<stack, signal, status, result, heap, modVars, issued,
                 lexVars>>

(***************************************************************************)
(* Truthiness and the logical operators (expressions.ts isTruthy,          *)
(* eval_binary_expression, eval_unary_expression; statements.ts            *)
(* eval_if_statement, eval_while_statement).  An operand is a literal, an  *)
(* identifier or an assignment `x = v`, whose evaluation is [err, envs,    *)
(* heap, value]: the environments and the heap after its effects.          *)
(***************************************************************************)
MK_BOOL(b) ==
  [type |-> "boolean", val |-> IF b THEN "true" ELSE "false", env |-> 0]

\* Variant: the truthiness of JavaScript, where every array and object is
\* truthy.
isTruthy_JavaScript(H, value) ==
  IF value.type = "boolean" THEN value.val = "true"
  ELSE IF value.type = "null" THEN FALSE
  ELSE IF value.type = "number" THEN value.val # "0"
  ELSE IF value.type = "string" THEN value.val # ""
  ELSE TRUE

isTruthy(H, value) ==
  IF value.type = "boolean" THEN value.val = "true"
  ELSE IF value.type = "null" THEN FALSE
  ELSE IF value.type = "number" THEN value.val # "0"
  ELSE IF value.type = "string" THEN value.val # ""
  ELSE IF value.type = "array" THEN DOMAIN H[value.env].properties # {}
  ELSE IF value.type = "object"
  THEN \/ value.val \in {"MongoDatabase", "MongoCollection"}
       \/ PropertyKeys(H, value.env) # {}
  ELSE TRUE

Literal(value) ==
  [kind |-> "Literal", symbol |-> "", property |-> "", value |-> value]
ArrayLiteral(elements) ==
  [kind |-> "ArrayLiteral", symbol |-> "", property |-> "",
   value |-> elements]
EmptyObjectLiteral == [kind |-> "ObjectLiteral", symbol |-> "{}", property |-> ""]
AssignmentExpr(symbol, value) ==
  [kind |-> "AssignmentExpr", symbol |-> symbol, property |-> "",
   value |-> value]

Evaluated(err, E, H, value) ==
  [err |-> err, envs |-> E, heap |-> H, value |-> value]

\* evaluate with the effects of the expression.
evaluate_effects(E, H, e, expr) ==
  IF expr.kind = "Literal" THEN Evaluated("", E, H, expr.value)
  ELSE IF expr.kind = "ArrayLiteral"
  THEN Evaluated("", E,
         Append(H, [schemaName |-> "", classEnv |-> 0, meta |-> NoMeta,
                    properties |-> IF expr.value = <<>> THEN EmptyMap
                                   ELSE "0" :> expr.value[1]]),
         MK_ARRAY(Len(H) + 1))
  ELSE IF expr = EmptyObjectLiteral
  THEN Evaluated("", E, eval_object_expr(H, EmptyMap).heap,
                 eval_object_expr(H, EmptyMap).value)
  ELSE IF expr.kind = "AssignmentExpr"
  THEN LET a == assignVar(E, e, expr.symbol, expr.value)
       IN Evaluated(a.err, a.envs, H, a.value)
  ELSE LET r == evaluate(E, H, e, expr)
       IN Evaluated(r.err, E, r.heap, r.value)

\* Variant of `left && right` and `left || right`: both operands are
\* evaluated before the operator is applied.
eval_binary_expression_Eager(E, H, e, operator, left, right) ==
  LET l == evaluate_effects(E, H, e, left)
      r == evaluate_effects(l.envs, l.heap, e, right)
  IN IF l.err # "" THEN l
     ELSE IF r.err # "" THEN r
     ELSE IF operator = "&&"
     THEN [r EXCEPT !.value = MK_BOOL(isTruthy(r.heap, l.value)
                                        /\ isTruthy(r.heap, r.value))]
     ELSE [r EXCEPT !.value = MK_BOOL(isTruthy(r.heap, l.value)
                                        \/ isTruthy(r.heap, r.value))]

\* `left && right` and `left || right`.
eval_binary_expression(E, H, e, operator, left, right) ==
  LET l == evaluate_effects(E, H, e, left)
      r == evaluate_effects(l.envs, l.heap, e, right)
  IN IF l.err # "" THEN l
     ELSE IF operator = "&&" /\ ~isTruthy(l.heap, l.value)
     THEN [l EXCEPT !.value = MK_BOOL(FALSE)]
     ELSE IF operator = "||" /\ isTruthy(l.heap, l.value)
     THEN [l EXCEPT !.value = MK_BOOL(TRUE)]
     ELSE IF r.err # "" THEN r
     ELSE [r EXCEPT !.value = MK_BOOL(isTruthy(r.heap, r.value))]

\* `!operand`.
eval_unary_expression(E, H, e, operand) ==
  LET o == evaluate_effects(E, H, e, operand)
  IN IF o.err # "" THEN o
     ELSE [o EXCEPT !.value = MK_BOOL(~isTruthy(o.heap, o.value))]

\* `last` of a statement that evaluated expression expr.
Tested(o, expr) == [op |-> o, sig |-> NoSignal, test |-> expr]

\* The expression statement whose expression evaluated to x.
eval_expression_statement(x) ==
  /\ envs' = x.envs
  /\ result' = IF x.err = "" THEN x.value ELSE result
  /\ heap' = CollectHeap(x.envs, x.heap, stack, {result', signal.value})
  /\ signal' = Raised(x)
  /\ UNCHANGED <<stack, status, modVars, mongoVars>>

\* `left operator right;`
eval_binary_statement(operator, left, right) ==
  /\ Running
  /\ eval_expression_statement(
       eval_binary_expression(envs, heap, CurEnv, operator, left, right))
  /\ last' = Tested("binary",
                    [operator |-> operator, left |-> left, right |-> right])

\* `!operand;`
eval_unary_statement(operand) ==
  /\ Running
  /\ eval_expression_statement(
       eval_unary_expression(envs, heap, CurEnv, operand))
  /\ last' = Tested("unary", operand)

\* `if (test) { ... }` and `while (test) { ... }` up to the body: the
\* frame of the body is pushed when the test is truthy.
eval_test(kind, test) ==
  /\ Running
  /\ Len(stack) < MaxDepth
  /\ LET t == evaluate_effects(envs, heap, CurEnv, test)
         S == IF t.err = "" /\ isTruthy(t.heap, t.value)
              THEN Append(stack, BlockFrame(kind, "")) ELSE stack
     IN /\ envs' = t.envs
        /\ signal' = Raised(t)
        /\ stack' = S
        /\ heap' = CollectHeap(t.envs, t.heap, S, Held(resultCache))
  /\ last' = Tested(kind, test)
  /\ UNCHANGED <<status, result, modVars, mongoVars>>

eval_if_statement_test(test) == eval_test("if", test)
eval_while_statement_test(test) == eval_test("while", test)

\* The operands the statements are picked with.
Operands ==
  {Literal(v) : v \in {MK_NULL, MK_BOOL(TRUE), MK_BOOL(FALSE),
                       MK_NUMBER("0"), MK_NUMBER("1"),
                       MK_STRING(""), MK_STRING("s")}}
    \cup {ArrayLiteral(<<>>), ArrayLiteral(<<MK_NULL>>),
          EmptyObjectLiteral, ObjectLiteral}
    \cup {Identifier(n) : n \in {"f", "print", SchemaName, "p", "y"}}
    \cup {AssignmentExpr("x", v) : v \in {MK_NUMBER("0"), MK_NUMBER("2")}}
RightOperands ==
  {AssignmentExpr("x", MK_NUMBER("2")), AssignmentExpr("x", MK_NUMBER("0")),
   Identifier("y"), ArrayLiteral(<<>>), Literal(MK_STRING("s"))}

(***************************************************************************)
(* The lexer (lexer.ts tokenize), on a source text given as its sequence   *)
(* of characters.  A token is [value, type], the value being a sequence of *)
(* characters; Deno.exit(1) ends the process, so no token stream exists:   *)
(* [exit |-> TRUE, tokens |-> <<>>].  The sources are made of a digit, a   *)
(* dot, a letter, a blank and a character the lexer does not know.         *)
(***************************************************************************)
Chars == {"1", ".", "x", " ", "#"}
NotLexed == [exit |-> FALSE, tokens |-> <<>>]
Exit == [exit |-> TRUE, tokens |-> <<>>]

token(value, type) == [value |-> value, type |-> type]
EndOfFile == token(<<"E", "O", "F">>, "EOF")

isInt(str) == str \in {"0", "1", "2", "3", "4", "5", "6", "7", "8", "9"}
isIdentifierStart(ch) == ch \in {"x", "_"}
isIdentifierPart(ch) == isIdentifierStart(ch) \/ isInt(ch)
isSkippable(str) == str \in {" ", "\n", "\t", "\r"}

\* The loop that collects a number: [num, src] when it is left.
RECURSIVE tokenize_number(_, _, _)
tokenize_number(src, num, hasDecimalPoint) ==
  IF src = <<>> THEN [num |-> num, src |-> src]
  ELSE IF isInt(src[1])
  THEN tokenize_number(Tail(src), Append(num, src[1]), hasDecimalPoint)
  ELSE IF src[1] = "." /\ ~hasDecimalPoint /\ Len(src) > 1 /\ isInt(src[2])
  THEN tokenize_number(Tail(src), Append(num, src[1]), TRUE)
  ELSE [num |-> num, src |-> src]

\* The loop that collects an identifier.
RECURSIVE tokenize_identifier(_, _)
tokenize_identifier(src, ident) ==
  IF src # <<>> /\ isIdentifierPart(src[1])
  THEN tokenize_identifier(Tail(src), Append(ident, src[1]))
  ELSE [ident |-> ident, src |-> src]

\* The main loop, in the order of its branches.
RECURSIVE tokenize_loop(_, _)
tokenize_loop(src, tokens) ==
  IF src = <<>> THEN [exit |-> FALSE, tokens |-> Append(tokens, EndOfFile)]
  ELSE IF src[1] = "."
  THEN tokenize_loop(Tail(src), Append(tokens, token(<<".">>, "Dot")))
  ELSE IF isInt(src[1]) \/ (src[1] = "." /\ Len(src) > 1 /\ isInt(src[2]))
  THEN LET n == tokenize_number(src, <<>>, FALSE)
           num == IF n.num[1] = "." THEN <<"0">> \o n.num ELSE n.num
       IN IF num[Len(num)] = "." THEN Exit
          ELSE tokenize_loop(n.src, Append(tokens, token(num, "Number")))
  ELSE IF isIdentifierStart(src[1])
  THEN LET i == tokenize_identifier(src, <<>>)
       IN tokenize_loop(i.src, Append(tokens, token(i.ident, "Identifier")))
  ELSE IF isSkippable(src[1]) THEN tokenize_loop(Tail(src), tokens)
  ELSE Exit

tokenize(text) == tokenize_loop(text, <<>>)

\* The texts of up to n characters.
RECURSIVE Sources(_)
Sources(n) ==
  IF n = 0 THEN {<<>>}
  ELSE Sources(n - 1)
         \cup {Append(t, c) : t \in {u \in Sources(n - 1) : Len(u) = n - 1},
                              c \in Chars}

\* run hands the text of the file to the lexer.
run_tokenize(text) ==
  /\ sourceCode' = text
  /\ lexed' = tokenize(text)
  /\ UNCHANGED <<envs, heap, stack, signal, status, result, last, modVars,
                 databaseBinding, collectionBindings, conns, issued, timers>>

Init ==
  /\ envs = <<createGlobalENV>>
  /\ heap = <<>>
  /\ stack = <<[kind |-> "program", env |-> 1]>>
  /\ signal = NoSignal
  /\ status = "running"
  /\ result = MK_NULL
  /\ last = [op |-> "init", sig |-> NoSignal]
  /\ resultCache = [p \in Paths |-> NotCached]
  /\ inProgress = {EntryPath}
  /\ moduleStack = <<EntryPath>>
  /\ circular = FALSE
  /\ databaseBinding = ""
  /\ collectionBindings = {}
  /\ conns = {}
  /\ issued = NoCall
  /\ timers = <<>>
  /\ sourceCode = <<>>
  /\ lexed = NotLexed

(***************************************************************************)
(* Scopes: declarations, assignments, lookups and function calls.          *)
(***************************************************************************)
NextScopes ==
  \/ \E n \in {"x"}, v \in DeclValues, c \in BOOLEAN :
        eval_var_declaration(n, v, c)
  \/ \E n \in ScopeNames, v \in AssignValues : eval_assignment(n, v)
  \/ \E n \in ScopeNames : eval_identifier(n)
  \/ eval_function_declaration("f")
  \/ Len(stack) = 1 /\ eval_class_declaration(SchemaName)
  \/ \E n \in ScopeNames \ {SchemaName} : eval_call_expr(n, <<>>)
  \/ invokeCallable_end
  \/ invokeCallable_catch
  \/ run_end
  \/ run_catch

SpecScopes == Init /\ [][NextScopes]_vars

(***************************************************************************)
(* Name resolution in function and method bodies; the schema and its       *)
(* instance are declared at the top level of the program.                  *)
(***************************************************************************)
NextLexical ==
  \/ \E v \in DeclValues : eval_var_declaration("x", v, FALSE)
  \/ \E v \in AssignValues : eval_assignment("x", v)
  \/ eval_identifier("x")
  \/ eval_function_declaration("f")
  \/ eval_call_expr("f", <<>>)
  \/ Len(stack) = 1 /\ eval_class_declaration(SchemaName)
  \/ Len(stack) = 1 /\ eval_var_declaration_instance("o", SchemaName, Positional(<<>>))
  \/ eval_member_call("o", "m", <<>>)
  \/ invokeCallable_end
  \/ invokeCallable_catch
  \/ bindMethod_end
  \/ bindMethod_catch
  \/ run_end
  \/ run_catch

SpecLexical == Init /\ [][NextLexical]_vars

(***************************************************************************)
(* Imports: modules that export, import and throw, and try/catch around    *)
(* them.                                                                   *)
(***************************************************************************)
NextModules ==
  \/ \E path \in Paths, st \in ImportStatements :
        eval_import_statement(path, st)
  \/ \E v \in DeclValues : eval_export_declaration("y", v)
  \/ \E v \in ThrowValues : eval_throw_statement(v)
  \/ eval_try_catch_statement("")
  \/ evaluateBlock_end
  \/ evaluateBlock_throw
  \/ eval_try_catch_catch
  \/ eval_import_end
  \/ eval_import_catch
  \/ run_end
  \/ run_catch

SpecModules == Init /\ [][NextModules]_vars

(***************************************************************************)
(* Import sites: the entry program declares y or not and imports module a  *)
(* in every shape, once or again from the cache; the module exports y, z   *)
(* and a default, or some of them.                                         *)
(***************************************************************************)
NextImports ==
  \/ Len(stack) = 1
       /\ \E st \in ImportShapes : eval_import_statement("a", st)
  \/ Len(stack) = 1 /\ \E v \in DeclValues : eval_var_declaration("y", v, FALSE)
  \/ Len(stack) = 2
       /\ \E n \in {"y", "z"}, v \in DeclValues : eval_export_declaration(n, v)
  \/ Len(stack) = 2 /\ \E v \in AssignValues : eval_export_default(v)
  \/ eval_import_end
  \/ eval_import_catch
  \/ run_end
  \/ run_catch

SpecImports == Init /\ [][NextImports]_vars

(***************************************************************************)
(* Timers, promises and awaits: the program declares x and f at any time,  *)
(* schedules f, sleeps, connects and awaits at top level; the body of f    *)
(* reads and assigns x, throws or returns.                                 *)
(***************************************************************************)
NextAsync ==
  \/ \E v \in DeclValues : eval_var_declaration("x", v, FALSE)
  \/ \E v \in AssignValues : eval_assignment("x", v)
  \/ eval_identifier("x")
  \/ Len(stack) = 1 /\ eval_function_declaration("f")
  \/ Len(stack) = 1 /\ \E callee \in {"f", "x", "print"} : nativeSchedule(callee)
  \/ Len(stack) = 1 /\ eval_var_declaration_sleep("p")
  \/ Len(stack) = 1 /\ \E argument \in {SleepCall, Identifier("p"), Identifier("x")} :
        eval_await_expression(argument)
  \/ Len(stack) = 1 /\ \E scheme \in Schemes : nativeConnect(scheme)
  \/ \E connected \in BOOLEAN : nativeConnect_settle(connected)
  \/ \E i \in 1..MaxTimers : nativeSleep_timeout(i)
  \/ \E i \in 1..MaxTimers : nativeSchedule_timeout(i)
  \/ Len(stack) > 1 /\ \E v \in ThrowValues : eval_throw_statement(v)
  \/ nativeSchedule_end
  \/ nativeSchedule_catch
  \/ invokeCallable_end
  \/ invokeCallable_catch
  \/ run_end
  \/ run_catch

SpecAsync == Init /\ [][NextAsync]_vars

(***************************************************************************)
(* Tests: the program declares x, f, the schema and a promise p, and       *)
(* applies `!`, `&&`, `||`, if and while to every kind of operand.         *)
(***************************************************************************)
NextTruth ==
  \/ Len(stack) = 1 /\ \E v \in DeclValues : eval_var_declaration("x", v, FALSE)
  \/ Len(stack) = 1 /\ eval_function_declaration("f")
  \/ Len(stack) = 1 /\ eval_class_declaration(SchemaName)
  \/ Len(stack) = 1 /\ eval_var_declaration_sleep("p")
  \/ Len(stack) = 1 /\ \E operator \in {"&&", "||"}, left \in Operands,
                            right \in RightOperands :
        eval_binary_statement(operator, left, right)
  \/ Len(stack) = 1 /\ \E operand \in Operands : eval_unary_statement(operand)
  \/ Len(stack) = 1 /\ \E test \in Operands : eval_if_statement_test(test)
  \/ Len(stack) = 1 /\ \E test \in Operands : eval_while_statement_test(test)
  \/ evaluateBlock_end
  \/ run_end
  \/ run_catch

SpecTruth == Init /\ [][NextTruth]_vars

(***************************************************************************)
(* Lexing: every text of up to MaxSourceLen characters.                    *)
(***************************************************************************)
NextLexer == \E text \in Sources(MaxSourceLen) : run_tokenize(text)

SpecLexer == Init /\ [][NextLexer]_vars





(***************************************************************************)
(* Schemas and calls with arguments: instances of Counter and Point made   *)
(* with positional and named arguments, methods and the function g called  *)
(* with matching, non-matching, missing and extra arguments, bodies that   *)
(* assign the field locals, return and throw.                              *)
(***************************************************************************)
InstanceArguments ==
  {Positional(<<>>),
   Positional(<<MK_NUMBER("2")>>),
   Positional(<<MK_STRING("t"), MK_NUMBER("2")>>),
   Positional(<<MK_NUMBER("2"), MK_STRING("t")>>),
   Positional(<<MK_STRING("t"), MK_NUMBER("2"), MK_NUMBER("2")>>),
   Named("px" :> MK_NUMBER("2")),
   Named(("px" :> MK_NUMBER("2")) @@ ("size" :> MK_NUMBER("2")))}

CallArguments ==
  {<<>>, <<MK_NUMBER("2")>>, <<MK_STRING("t")>>,
   <<MK_NUMBER("2"), MK_STRING("t")>>,
   <<MK_NUMBER("2"), MK_STRING("t"), MK_NUMBER("2")>>}

MethodArguments == {<<>>, <<MK_NUMBER("3")>>, <<MK_STRING("t")>>,
                    <<MK_NUMBER("3"), MK_NUMBER("3")>>}

NextSchemas ==
  \/ \E c \in {SchemaName, PointName} :
        Len(stack) = 1 /\ eval_class_declaration(c)
  \/ \E c \in {SchemaName, PointName}, args \in InstanceArguments :
        Len(stack) = 1 /\ eval_var_declaration_instance("o", c, args)
  \/ eval_member_call("o", "m", <<>>)
  \/ \E args \in MethodArguments : eval_member_call("o", "set", args)
  \/ \E n \in {"px", "label"}, v \in AssignValues : eval_assignment(n, v)
  \/ \E v \in FieldValues : eval_assignment("count", v)
  \/ Len(stack) = 1 /\ eval_function_declaration("g")
  \/ \E args \in CallArguments : eval_call_expr("g", args)
  \/ \E v \in DeclValues : eval_return_statement(v)
  \/ \E v \in ThrowValues : eval_throw_statement(v)
  \/ invokeCallable_end
  \/ invokeCallable_catch
  \/ bindMethod_end
  \/ bindMethod_catch
  \/ run_end
  \/ run_catch

SpecSchemas == Init /\ [][NextSchemas]_vars

(***************************************************************************)
(* Methods of one instance: the program declares Point and                 *)
(*     declare o = Point("t", 1);                                          *)
(* and calls o.m(), o.set(...) and o.put(...); the bodies assign the field *)
(* local px, call the methods of `this`, return and throw.                 *)
(***************************************************************************)
NextMethods ==
  \/ Len(stack) = 1 /\ eval_class_declaration(PointName)
  \/ Len(stack) = 1 /\ eval_var_declaration_instance("o", PointName,
                         Positional(<<MK_STRING("t"), MK_NUMBER("1")>>))
  \/ Len(stack) = 1 /\ eval_member_call("o", "m", <<>>)
  \/ Len(stack) > 1 /\ eval_member_call("this", "m", <<>>)
  \/ \E method \in {"set", "put"}, args \in MethodArguments :
        \/ Len(stack) = 1 /\ eval_member_call("o", method, args)
        \/ Len(stack) > 1 /\ eval_member_call("this", method, args)
  \/ \E v \in AssignValues : eval_assignment("px", v)
  \/ \E v \in DeclValues : eval_return_statement(v)
  \/ \E v \in ThrowValues : eval_throw_statement(v)
  \/ bindMethod_end
  \/ bindMethod_catch
  \/ run_end
  \/ run_catch

SpecMethods == Init /\ [][NextMethods]_vars


(***************************************************************************)
(* Programs of one query expression of up to MaxConditions conditions.     *)
(***************************************************************************)
NextQuery ==
  \/ result = MK_NULL /\ eval_mongo_query_expr
  \/ \E condition \in QueryConditions : eval_mongo_query_condition(condition)
  \/ eval_mongo_query_end
  \/ eval_mongo_query_throw
  \/ run_end
  \/ run_catch

SpecQuery == Init /\ [][NextQuery]_vars

(***************************************************************************)
(* DSL operations in the body of a `using mongo` statement with the        *)
(* collection c: `declare r = c op literal;`, then operations and updates   *)
(* declared as s on c, on the chain r and on r.value, with literals, r and *)
(* r.value as arguments.                                                   *)
(***************************************************************************)
NextChains ==
  \/ Len(stack) = 1 /\ eval_using_statement("db", "mongodb://", <<"c">>)
  \/ \E operator \in MongoOperators,
        argument \in {NullLiteral, NumericLiteral, ObjectLiteral} :
        eval_mongo_operation_expr("r", Identifier("c"), operator, argument)
  \/ \E target \in Targets, operator \in MongoOperators,
        argument \in Arguments :
        eval_mongo_operation_expr("s", target, operator, argument)
  \/ \E target \in Targets, filter \in Arguments \ {NullLiteral},
        update \in {ObjectLiteral, Identifier("r")}, many \in BOOLEAN :
        eval_mongo_update_expr("s", target, filter, update, many)
  \/ eval_using_end
  \/ eval_using_throw
  \/ run_end
  \/ run_catch

SpecChains == Init /\ [][NextChains]_vars

(***************************************************************************)
(* The registry: a `using mongo` statement at the top level, and in its    *)
(* body and in the function f declared there `database` and `collection`   *)
(* statements, `await disconnect()`, and declarations of db and h from db  *)
(* and from a number.                                                      *)
(***************************************************************************)
NextDatabase ==
  \/ Len(stack) = 1
       /\ \E cs \in CollectionConfigs :
            eval_using_statement("db", "mongodb://", cs)
  \/ Len(stack) = 2 /\ eval_function_declaration("f")
  \/ eval_call_expr("f", <<>>)
  \/ \E n \in {"db", "h"} : eval_var_declaration_copy(n, "db")
  \/ \E v \in DeclValues : eval_var_declaration("db", v, FALSE)
  \/ \E identifier \in {"db", "e"},
        initializer \in {Identifier("db"), Identifier("h"), NumericLiteral} :
        eval_database_statement(identifier, initializer)
  \/ eval_collection_statement("c")
  \/ nativeDisconnect
  \/ invokeCallable_end
  \/ invokeCallable_catch
  \/ eval_using_end
  \/ eval_using_throw
  \/ run_end
  \/ run_catch

SpecDatabase == Init /\ [][NextDatabase]_vars

(***************************************************************************)
(* `using mongo` statements, nested and inside try/catch, with bodies that *)
(* throw, return and break.                                                *)
(***************************************************************************)
NextMongo ==
  \/ \E scheme \in Schemes, cs \in CollectionConfigs :
        eval_using_statement("db", scheme, cs)
  \/ \E v \in ThrowValues : eval_throw_statement(v)
  \/ \E v \in DeclValues : eval_return_statement(v)
  \/ eval_break_statement
  \/ eval_try_catch_statement("")
  \/ evaluateBlock_end
  \/ evaluateBlock_throw
  \/ eval_try_catch_catch
  \/ eval_using_end
  \/ eval_using_throw
  \/ run_end
  \/ run_catch

SpecMongo == Init /\ [][NextMongo]_vars

(***************************************************************************)
(* Control flow: throw, return, break, continue through blocks and calls.  *)
(***************************************************************************)
NextControl ==
  \/ \E v \in ThrowValues : eval_throw_statement(v)
  \/ \E v \in DeclValues : eval_return_statement(v)
  \/ eval_break_statement
  \/ eval_continue_statement
  \/ eval_identifier("x")
  \/ eval_function_declaration("f")
  \/ eval_call_expr("f", <<>>)
  \/ Len(stack) = 1 /\ eval_class_declaration(SchemaName)
  \/ Len(stack) = 1 /\ eval_var_declaration_instance("o", SchemaName, Positional(<<>>))
  \/ eval_member_call("o", "m", <<>>)
  \/ \E v \in FieldValues : eval_assignment("count", v)
  \/ eval_if_statement
  \/ eval_while_statement
  \/ \E p \in {"", "e"} : eval_try_catch_statement(p)
  \/ evaluateBlock_end
  \/ evaluateBlock_throw
  \/ eval_while_catch
  \/ eval_try_catch_catch
  \/ invokeCallable_end
  \/ invokeCallable_catch
  \/ bindMethod_end
  \/ bindMethod_catch
  \/ \E st \in ImportStatements :
        Len(stack) = 1 /\ eval_import_statement("a", st)
  \/ eval_import_end
  \/ eval_import_catch
  \/ run_end
  \/ run_catch

SpecControl == Init /\ [][NextControl]_vars

(***************************************************************************)
(* Blocks and scopes.  The program holds one loop `while (t) { declare x   *)
(* = 1; }`, if and try statements that declare y in their bodies, and the  *)
(* statements that create environments: the calls of f and o.m(), a       *)
(* `using mongo` statement and an import.  The blocks stand at top level   *)
(* or in the body of one of these.                                         *)
(***************************************************************************)
NextBlocks ==
  \/ Len(stack) = 1 /\ eval_function_declaration("f")
  \/ Len(stack) = 1 /\ eval_call_expr("f", <<>>)
  \/ Len(stack) = 1 /\ eval_class_declaration(SchemaName)
  \/ Len(stack) = 1 /\ eval_var_declaration_instance("o", SchemaName, Positional(<<>>))
  \/ Len(stack) = 1 /\ eval_member_call("o", "m", <<>>)
  \/ Len(stack) = 1 /\ eval_using_statement("db", "mongodb://", <<>>)
  \/ \E st \in ImportStatements :
        Len(stack) = 1 /\ eval_import_statement("a", st)
  \/ Len(stack) <= 2 /\ eval_if_statement
  \/ Len(stack) <= 2 /\ Running /\ ~hasOwnBinding(envs, CurEnv, "x")
       /\ eval_while_statement
  \/ Len(stack) <= 2 /\ \E p \in {"", "e"} : eval_try_catch_statement(p)
  \/ Len(stack) > 1 /\ Top.kind = "while" /\ last.op \in {"while", "iterate"}
       /\ \E v \in DeclValues : eval_var_declaration("x", v, FALSE)
  \/ Len(stack) > 1 /\ last.op = "declare" /\ eval_while_statement_iterate
  \/ Len(stack) > 1 /\ Top.kind \in {"if", "try", "catch"}
       /\ \E v \in DeclValues : eval_var_declaration("y", v, FALSE)
  \/ Len(stack) > 1 /\ Top.kind = "try"
       /\ \E v \in ThrowValues : eval_throw_statement(v)
  \/ evaluateBlock_end
  \/ evaluateBlock_throw
  \/ eval_while_catch
  \/ eval_try_catch_catch
  \/ invokeCallable_end
  \/ invokeCallable_catch
  \/ bindMethod_end
  \/ bindMethod_catch
  \/ eval_using_end
  \/ eval_using_throw
  \/ eval_import_end
  \/ eval_import_catch
  \/ run_end
  \/ run_catch

SpecBlocks == Init /\ [][NextBlocks]_vars

(***************************************************************************)
(* Bindings around the DSL statements: the program declares db and c,      *)
(* constant or not, at top level, and in the body of `using mongo ... as   *)
(* db` runs database, collection and use collection statements on names    *)
(* that are bound outside.                                                 *)
(***************************************************************************)
NextBindings ==
  \/ Len(stack) = 1 /\ \E n \in {"db", "c"}, v \in DeclValues, constant \in BOOLEAN :
        eval_var_declaration(n, v, constant)
  \/ Len(stack) = 1 /\ \E cs \in CollectionConfigs :
        eval_using_statement("db", "mongodb://", cs)
  \/ Len(stack) = 2 /\ \E identifier \in {"c", "print", "e"} :
        eval_database_statement(identifier, Identifier("db"))
  \/ Len(stack) = 2 /\ \E n \in {"c", "print"} : eval_collection_statement(n)
  \/ Len(stack) = 2 /\ \E n \in {"c", "print", "u"} :
        eval_use_collection_statement(n)
  \/ eval_using_end
  \/ eval_using_throw
  \/ run_end
  \/ run_catch

SpecBindings == Init /\ [][NextBindings]_vars

(***************************************************************************)
(* disconnect() without await: in the body of `using mongo ... as db` the  *)
(* program copies the handle, calls disconnect(), registers the copy as    *)
(* database e with a collection c, and awaits sleep(0).                    *)
(***************************************************************************)
NextCleanup ==
  \/ Len(stack) = 1 /\ \E cs \in CollectionConfigs :
        eval_using_statement("db", "mongodb://", cs)
  \/ Len(stack) = 2 /\ eval_var_declaration_copy("h", "db")
  \/ Len(stack) = 2 /\ nativeDisconnect_call
  \/ Len(stack) = 2 /\ \E identifier \in {"e", "db"} :
        eval_database_statement(identifier, Identifier("h"))
  \/ Len(stack) = 2 /\ eval_collection_statement("c")
  \/ Len(stack) = 2 /\ eval_await_expression(SleepCall)
  \/ \E i \in 1..MaxTimers : nativeSleep_timeout(i)
  \/ \E i \in 1..MaxTimers : nativeDisconnect_then(i)
  \/ eval_using_end
  \/ eval_using_throw
  \/ run_end
  \/ run_catch

SpecCleanup == Init /\ [][NextCleanup]_vars


(***************************************************************************)
(* Notions the properties are stated with.                                 *)
(***************************************************************************)
\* The environments on the parent chain of e, with their distance from e.
RECURSIVE Chain(_, _)
Chain(E, e) == IF e = 0 THEN <<>> ELSE <<e>> \o Chain(E, E[e].parent)

\* The positions on e's chain whose environment binds n.
Declaring(E, e, n) ==
  {i \in 1..Len(Chain(E, e)) : n \in DOMAIN E[Chain(E, e)[i]].variables}

\* The nearest environment on e's chain that binds n (0: none does).
Nearest(E, e, n) ==
  IF Declaring(E, e, n) = {} THEN 0
  ELSE Chain(E, e)[CHOOSE i \in Declaring(E, e, n) :
                      \A j \in Declaring(E, e, n) : i <= j]

IsFatal(sig, msg) == sig.kind = "fatal" /\ sig.value = MK_STRING(msg)

\* C5: assigning to a name whose nearest binding is a constant (a user
\* constant, a function, a schema, a built-in global) is fatal and changes no
\* environment, at whatever depth below the declaring environment the
\* assignment is evaluated; and no assignment changes the value or the
\* constness of any constant binding.
ConstImmutable ==
  [][ \A n \in ScopeNames, v \in AssignValues :
        eval_assignment(n, v) =>
          /\ ( /\ Nearest(envs, CurEnv, n) # 0
               /\ n \in envs[Nearest(envs, CurEnv, n)].constants )
             => (IsFatal(signal', ErrReassignConst) /\ envs' = envs)
          /\ \A e \in 1..Len(envs) : \A c \in envs[e].constants :
               /\ c \in DOMAIN envs'[e].variables
               /\ c \in envs'[e].constants
               /\ envs'[e].variables[c] = envs[e].variables[c]
    ]_vars

\* The assignment was made two scopes below the global environment, where
\* the user constant x is declared.
ConstAssignRejectedInNestedScope ==
  /\ last.op = "assign"
  /\ IsFatal(signal, ErrReassignConst)
  /\ Len(stack) = 3
  /\ Nearest(envs, CurEnv, "x") = 1
  /\ CurEnv # 1
  /\ "x" \in envs[1].constants

\* C6: from every environment a name resolves to the binding of the
\* nearest environment on the parent chain that declares it (and fails when
\* none does), and the scope of a function or method invocation hangs under
\* the declaration environment of the function, resp. of the class, whoever
\* calls it.
LexicalScoping ==
  /\ \A e \in 1..Len(envs) : \A n \in Names :
       LET d == Nearest(envs, e, n) IN
         /\ resolve(envs, e, n) = d
         /\ d = 0 => lookupVar(envs, e, n).err = ErrUnresolved
         /\ d # 0 => lookupVar(envs, e, n) = Ok(envs, envs[d].variables[n])
  /\ \A i \in 1..Len(stack) :
       stack[i].kind \in {"func", "method"}
         => envs[stack[i].env].parent = stack[i].decl

\* A method body, called from a function body that declares its own x = 2,
\* read x: it got the x of the environment the class was declared in.
CalleeIgnoresCallerBinding ==
  /\ last.op = "lookup"
  /\ signal.kind = "none"
  /\ Len(stack) = 3
  /\ Top.kind = "method"
  /\ stack[2].kind = "func"
  /\ Top.caller = stack[2].env
  /\ Top.caller # Top.decl
  /\ "x" \in DOMAIN envs[Top.caller].variables
  /\ envs[Top.caller].variables["x"] = MK_NUMBER("2")
  /\ result = MK_NUMBER("1")

\* C7: declaring a name the current environment node already binds is fatal
\* and changes no environment; looking up or assigning a name that no
\* environment on the chain binds is fatal and changes no environment.
RedeclareAndUnknownAreFatal ==
  [][ /\ \A n \in ScopeNames, v \in DeclValues, c \in BOOLEAN :
           (eval_var_declaration(n, v, c)
              /\ n \in DOMAIN envs[CurEnv].variables)
           => (IsFatal(signal', ErrAlreadyDeclared) /\ envs' = envs)
      /\ \A n \in ScopeNames :
           (eval_function_declaration(n)
              /\ n \in DOMAIN envs[CurEnv].variables)
           => (IsFatal(signal', ErrAlreadyDeclared) /\ envs' = envs)
      /\ \A n \in ScopeNames :
           (eval_identifier(n) /\ Nearest(envs, CurEnv, n) = 0)
           => (IsFatal(signal', ErrUnresolved) /\ envs' = envs)
      /\ \A n \in ScopeNames, v \in AssignValues :
           (eval_assignment(n, v) /\ Nearest(envs, CurEnv, n) = 0)
           => (IsFatal(signal', ErrUnresolved) /\ envs' = envs)
    ]_vars

\* A redeclaration was rejected in a scope that binds x as a variable whose
\* value had been assigned.
RedeclarationRejected ==
  /\ last.op = "declare"
  /\ IsFatal(signal, ErrAlreadyDeclared)
  /\ "x" \in DOMAIN envs[CurEnv].variables
  /\ envs[CurEnv].variables["x"] = MK_NUMBER("2")

(***************************************************************************)
(* Properties of the control-flow signals.                                 *)
(***************************************************************************)
Propagating(k) == status = "running" /\ stack # <<>> /\ signal.kind = k

\* C8: only a value thrown by `throw` is handed to a catch body: any other
\* error that reaches the catch clause of a try statement leaves the
\* statement as it came, and its catch body is not run.
OnlyThrownValuesAreCaught ==
  [][ (eval_try_catch_catch /\ signal.kind # "exception")
        => (stack' = Pop(stack) /\ signal' = signal) ]_vars

\* C9: a thrown value in flight leaves every handler that is not a try
\* block (function and method invocations included) unchanged; the first
\* try block it meets is the innermost one that enclosed the throw, and
\* there the catch body starts, once, in a new environment whose parent is
\* the try statement's and which binds the catch parameter (if any) to the
\* thrown value and nothing else; the try block is over, so that a throw in
\* the catch body is meant for the next enclosing try block.
ThrownValueReachesInnermostTry ==
  [][ Propagating("exception") =>
        IF Top.kind = "try"
        THEN /\ Len(stack) = signal.target
             /\ signal' = NoSignal
             /\ stack' = Append(Pop(stack), Top')
             /\ Top'.kind = "catch"
             /\ Top'.env = Len(envs) + 1
             /\ SubSeq(envs', 1, Len(envs)) = envs
             /\ envs'[Top'.env].parent = Top.env
             /\ envs'[Top'.env].constants = {}
             /\ IF Top.param = ""
                THEN DOMAIN envs'[Top'.env].variables = {}
                ELSE envs'[Top'.env].variables = (Top.param :> signal.value)
             /\ InnermostTry(stack', Len(stack')) =
                  InnermostTry(Pop(stack), Len(stack) - 1)
        ELSE /\ Len(stack) > signal.target
             /\ stack' = Pop(stack)
             /\ signal'.kind = "exception"
             /\ signal'.value = signal.value
             /\ signal'.target = signal.target
    ]_vars

\* A value thrown inside a call was caught by the try block around the call
\* and bound to the catch parameter.
ThrownOutOfCallCaught ==
  /\ last.op = "tryCatch"
  /\ last.sig.kind = "exception"
  /\ last.sig.calls = 1
  /\ last.sig.depth = Len(stack) + 1
  /\ signal.kind = "none"
  /\ Top.kind = "catch"
  /\ Top.param = "e"
  /\ envs[Top.env].variables["e"] = MK_NUMBER("2")

\* The field locals of method scope e hold values their annotations accept.
FieldLocalsTyped(e) ==
  \A i \in 1..Len(Fields) :
     LET v == envs[e].variables[Fields[i].name] IN
       v.type = Fields[i].typeAnnotation \/ v.type = "null"

\* What a return signal in flight does at each handler but a method's.
ReturnStep ==
  /\ stack' = Pop(stack)
  /\ CASE Top.kind = "func" ->
            /\ Len(stack) = signal.target
            /\ signal' = NoSignal
            /\ result' = signal.value
       [] Top.kind \in {"program", "module"} ->
            /\ signal.target = 0
            /\ IsFatal(signal', ErrReturnOutside)
       [] Top.kind \in {"if", "while", "try", "catch"} ->
            /\ signal.target # 0 => Len(stack) > signal.target
            /\ signal' = signal
            /\ result' = result

\* C10 as stated: a return signal passes if, while, try and catch blocks,
\* ends the innermost function or method invocation, whose call evaluates
\* to the carried value, and is fatal at the top level.
ReturnYieldsCarriedValue ==
  [][ Propagating("return") =>
        IF Top.kind = "method"
        THEN /\ stack' = Pop(stack)
             /\ Len(stack) = signal.target
             /\ signal' = NoSignal
             /\ result' = signal.value
        ELSE ReturnStep
    ]_vars

\* C10, amended: as above, except that a method invocation ended by return
\* yields the carried value only when every field local passes the type
\* check of the write-back; otherwise the call raises the type error.
ReturnEndsInnermostInvocation ==
  [][ Propagating("return") =>
        IF Top.kind = "method"
        THEN /\ stack' = Pop(stack)
             /\ Len(stack) = signal.target
             /\ IF FieldLocalsTyped(Top.env)
                THEN signal' = NoSignal /\ result' = signal.value
                ELSE IsFatal(signal', ErrFieldType) /\ result' = result
        ELSE ReturnStep
    ]_vars

\* A return raised in a block nested in a function body ended the call,
\* which evaluated to the returned value.
ReturnFromNestedBlock ==
  /\ last.op = "callCatch"
  /\ last.sig.kind = "return"
  /\ last.sig.depth = Len(stack) + 2
  /\ last.sig.target = Len(stack) + 1
  /\ signal.kind = "none"
  /\ result = MK_NUMBER("1")

LoopError(k) == IF k = "break" THEN ErrBreakOutside ELSE ErrContinueOutside

\* C11: a break or continue in flight is consumed by the innermost while
\* loop enclosing it in the same body and by nothing else: break ends that
\* loop, continue leaves the loop active with the signal gone; if, try and
\* catch blocks pass it on unchanged; with no enclosing loop in the body it
\* becomes the loop error at the boundary of the function, method, program
\* or module, and a loop around the call passes that error on.
BreakContinueReachInnermostLoop ==
  [][ /\ (Propagating("break") \/ Propagating("continue")) =>
           IF Top.kind = "while"
           THEN /\ Len(stack) = signal.target
                /\ signal' = NoSignal
                /\ stack' = IF signal.kind = "break" THEN Pop(stack) ELSE stack
           ELSE IF Top.kind \in {"func", "method", "program", "module"}
           THEN /\ signal.target = 0
                /\ IsFatal(signal', LoopError(signal.kind))
                /\ stack' = Pop(stack)
           ELSE /\ Top.kind \in {"if", "try", "catch"}
                /\ signal.target # 0 => Len(stack) > signal.target
                /\ signal' = signal
                /\ stack' = Pop(stack)
      /\ (Propagating("fatal") /\ Top.kind = "while"
            /\ signal.value.val \in {ErrBreakOutside, ErrContinueOutside})
           => (signal' = signal /\ stack' = Pop(stack))
    ]_vars

\* A break raised in a block nested in a loop body ended the loop.
BreakInNestedBlockEndsLoop ==
  /\ last.op = "whileCatch"
  /\ last.sig.kind = "break"
  /\ last.sig.depth = Len(stack) + 2
  /\ signal.kind = "none"

(***************************************************************************)
(* Properties of schemas and calls.                                        *)
(***************************************************************************)
\* C12: when a method call returns (its body ended or executed return),
\* every field of the receiver equals the field local of the method scope
\* at the exit; when the call ends by throwing, the receiver is as it was
\* before the exit: no field has been written.
MethodWriteBackAllOrNothing ==
  [][ ((bindMethod_end \/ bindMethod_catch) /\ Top.inst <= Len(heap')) =>
        IF signal'.kind = "none"
        THEN \A name \in FieldNames(heap[Top.inst].schemaName) :
               heap'[Top.inst].properties[name] =
                 envs[Top.env].variables[name]
        ELSE heap'[Top.inst] = heap[Top.inst]
    ]_vars

\* The value v is one the annotated field accepts.
Accepts(field, v) ==
  \/ v.type = field.typeAnnotation
  \/ ~field.required /\ v.type = "null"

\* The call binds parameter i of the list to a value of another type than
\* the parameter's annotation.
Mismatch(parameters, args, i) ==
  /\ i <= Len(parameters)
  /\ parameters[i].typeAnnotation # ""
  /\ (IF i <= Len(args) THEN args[i] ELSE parameters[i].defaultValue).type
       \notin {parameters[i].typeAnnotation, "undefined"}

Supplied(parameters, args, i) ==
  IF i <= Len(args) THEN args[i] ELSE parameters[i].defaultValue

\* C19: a call of the function g with more arguments than parameters, or
\* leaving a parameter without default unsupplied, is fatal, starts no
\* invocation and changes no environment; a call that starts the body does
\* so in a fresh environment whose parent is the environment g was declared
\* in and which binds exactly the parameters, each to its argument or its
\* default; a body that runs to its end makes the call yield Null, a return
\* makes it yield the returned value.
CallBindsParametersInFreshScope ==
  [][ /\ \A args \in CallArguments :
           (eval_call_expr("g", args)
              /\ lookupVar(envs, CurEnv, "g").value.type = "function") =>
             LET ps == FunctionParameters("g")
                 fn == lookupVar(envs, CurEnv, "g").value
             IN IF Len(args) > Len(ps)
                THEN /\ IsFatal(signal', ErrTooManyArgs("g"))
                     /\ stack' = stack /\ envs' = envs
                ELSE IF \E i \in 1..Len(ps) : Supplied(ps, args, i) = Undefined
                THEN /\ signal'.kind = "fatal"
                     /\ stack' = stack /\ envs' = envs
                ELSE IF \E i \in 1..Len(ps) : Mismatch(ps, args, i)
                THEN signal'.kind = "fatal" /\ stack' = stack
                ELSE /\ signal' = NoSignal
                     /\ Len(stack') = Len(stack) + 1
                     /\ Top'.kind = "func"
                     /\ Top'.env = Len(envs) + 1
                     /\ SubSeq(envs', 1, Len(envs)) = envs
                     /\ envs'[Top'.env].parent = fn.env
                     /\ DOMAIN envs'[Top'.env].variables =
                          {ps[i].name : i \in 1..Len(ps)}
                     /\ \A i \in 1..Len(ps) :
                          envs'[Top'.env].variables[ps[i].name] =
                            Supplied(ps, args, i)
      /\ invokeCallable_end => (result' = MK_NULL /\ signal' = NoSignal)
      /\ (invokeCallable_catch /\ signal.kind = "return")
           => (result' = signal.value /\ signal' = NoSignal)
    ]_vars

\* g was called from inside a call of g with one argument: the new scope
\* binds p to the argument and q to its default, and its parent is the
\* declaration environment, not the caller's scope.
CalledWithDefault ==
  /\ last.op = "call"
  /\ signal.kind = "none"
  /\ Len(stack) = 3
  /\ Top.kind = "func"
  /\ stack[2].kind = "func"
  /\ envs[Top.env].parent # Top.caller
  /\ envs[Top.env].variables["p"] = MK_NUMBER("2")
  /\ envs[Top.env].variables["q"] = MK_NUMBER("1")

\* The field the i-th positional argument of class c is for: the i-th
\* constructor parameter when c has a constructor signature, else the i-th
\* field.
PositionalTarget(c, i) ==
  IF ClassConstructorParams(c) # <<>> THEN ClassConstructorParams(c)[i]
  ELSE ClassFields(c)[i].name

PositionalCount(c) ==
  IF ClassConstructorParams(c) # <<>> THEN Len(ClassConstructorParams(c))
  ELSE Len(ClassFields(c))

\* What the arguments provide, for arguments the class accepts.
ProvidedBy(c, args) ==
  IF args.literal THEN args.properties
  ELSE [n \in {PositionalTarget(c, i) : i \in 1..Len(args.values)} |->
          args.values[CHOOSE i \in 1..Len(args.values) :
                        PositionalTarget(c, i) = n]]

\* The value field gets: the provided one, else its initializer, else Null.
FieldValue(field, provided) ==
  IF field.name \in DOMAIN provided THEN provided[field.name]
  ELSE IF field.initializer # Undefined THEN field.initializer
  ELSE MK_NULL

\* The instantiation fails: [fatal, message] ("" for any message).
Rejected(c, args) ==
  IF args.literal /\ ~(DOMAIN args.properties \subseteq FieldNames(c))
  THEN [fatal |-> TRUE,
        message |-> ErrUnknownField(c,
           CHOOSE k \in DOMAIN args.properties \ FieldNames(c) : TRUE)]
  ELSE IF ~args.literal /\ Len(args.values) > PositionalCount(c)
  THEN [fatal |-> TRUE, message |-> ErrTooManyCtorArgs(c)]
  ELSE IF \E i \in 1..Len(ClassFields(c)) :
            LET field == ClassFields(c)[i] IN
              \/ /\ field.required
                 /\ field.name \notin DOMAIN ProvidedBy(c, args)
                 /\ field.initializer = Undefined
              \/ ~Accepts(field, FieldValue(field, ProvidedBy(c, args)))
  THEN [fatal |-> TRUE, message |-> ""]
  ELSE [fatal |-> FALSE, message |-> ""]

\* C20: `declare o = C(args)` for a declared class C.  One object argument
\* is a named-argument map, and a key that is no field of C is fatal;
\* otherwise the arguments are positional over C's constructor parameters
\* if it has any, else over its fields in declaration order, and more
\* arguments than that is fatal; a required field with neither a provided
\* value nor an initializer is fatal; a fatal instantiation leaves the heap
\* and the environments unchanged; any other makes one instance whose
\* fields hold the provided value, else the initializer, else Null.
InstantiationBindsArguments ==
  [][ \A c \in {SchemaName, PointName}, args \in InstanceArguments :
        (eval_var_declaration_instance("o", c, args)
           /\ lookupVar(envs, CurEnv, c).err = ""
           /\ "o" \notin DOMAIN envs[CurEnv].variables) =>
          IF Rejected(c, args).fatal
          THEN /\ signal'.kind = "fatal"
               /\ Rejected(c, args).message # ""
                    => IsFatal(signal', Rejected(c, args).message)
               /\ heap' = heap
               /\ envs' = envs
          ELSE /\ signal' = NoSignal
               /\ Len(heap') > Len(heap)
               /\ envs'[CurEnv].variables["o"] = ObjectVal(c, Len(heap'))
               /\ heap'[Len(heap')].schemaName = c
               /\ \A i \in 1..Len(ClassFields(c)) :
                    heap'[Len(heap')].properties[ClassFields(c)[i].name] =
                      FieldValue(ClassFields(c)[i], ProvidedBy(c, args))
    ]_vars

\* A Point was made from two positional arguments, taken in the order of
\* the constructor signature (label, px), not of the fields (px, label).
InstanceFromConstructorOrder ==
  /\ last.op = "new"
  /\ signal.kind = "none"
  /\ Len(heap) >= 1
  /\ heap[Len(heap)].schemaName = PointName
  /\ heap[Len(heap)].properties["label"] = MK_STRING("t")
  /\ heap[Len(heap)].properties["px"] = MK_NUMBER("2")

\* The lowered document v of heap H holds the condition: the field's entry
\* is the value itself (an equality alone) or an object whose key for the
\* operator is the value.
HoldsCondition(H, v, condition) ==
  LET doc == H[v.env].properties
      key == IF condition.operator = "==" THEN "$eq"
             ELSE mapComparisonOperator(condition.operator)
  IN /\ condition.field \in DOMAIN doc
     /\ LET entry == doc[condition.field] IN
          IF entry.type = "object"
          THEN /\ key \in DOMAIN H[entry.env].properties
               /\ H[entry.env].properties[key] = condition.value
          ELSE condition.operator = "==" /\ entry = condition.value

\* C14: the document a query expression lowers to loses no condition,
\* whatever their order: every condition, unless a later one has the same
\* field and operator, is held by the entry of its field.
QueryLoweringLosesNoCondition ==
  [][ eval_mongo_query_end =>
        \A i \in 1..Len(Top.conditions) :
           (\A j \in (i + 1)..Len(Top.conditions) :
               Top.conditions[j].field # Top.conditions[i].field
                 \/ Top.conditions[j].operator # Top.conditions[i].operator)
           => HoldsCondition(heap', result', Top.conditions[i])
    ]_vars

(***************************************************************************)
(* Properties of the DSL operations.                                       *)
(***************************************************************************)
\* The values of the variables in scope at the current statement, and the
\* operation chains among them.
ValuesInScope ==
  IF stack = <<>> THEN {}
  ELSE {MK_NULL, MK_NUMBER("1")}
         \cup {lookupVar(envs, CurEnv, n).value :
                 n \in {m \in {"c", "db", "r", "s"} :
                          hasBinding(envs, CurEnv, m)}}
ChainsInScope == {c \in ValuesInScope : isOperationResult(heap, c)}
ValueOf(c) == eval_member_expr(heap, c, "value").value
CollectionOf(c) == eval_member_expr(heap, c, "collection").value

Registered == ({databaseBinding} \cup collectionBindings) \ {""}

\* C16: a `database ident = expr;` whose expr is a database handle binds
\* ident as a constant to the handle and makes it the only entry of the
\* registry, and no earlier registered name other than ident is bound in the
\* environment any more; with any other expr the statement is fatal and
\* changes neither the environments nor the registry.
DatabaseStatementReplacesActiveDatabase ==
  [][\A identifier \in {"db", "e"},
        initializer \in {Identifier("db"), Identifier("h"), NumericLiteral} :
        eval_database_statement(identifier, initializer) =>
          LET handle == evaluate(envs, heap, CurEnv, initializer) IN
          IF handle.err = "" /\ isMongoDatabase(handle.value)
          THEN /\ signal'.kind = "none"
               /\ hasOwnBinding(envs', CurEnv, identifier)
               /\ envs'[CurEnv].variables[identifier] = handle.value
               /\ identifier \in envs'[CurEnv].constants
               /\ databaseBinding' = identifier
               /\ collectionBindings' = {}
               /\ \A n \in Registered \ {identifier} :
                    ~hasBinding(envs', CurEnv, n)
          ELSE /\ signal'.kind = "fatal"
               /\ envs' = envs
               /\ databaseBinding' = databaseBinding
               /\ collectionBindings' = collectionBindings
     ]_vars

\* C17: `disconnect()` with no active database is fatal and changes nothing;
\* when it returns, the connection of the active database binding is
\* closed, no registered name is bound in the environment any more and the
\* registry is empty.
DisconnectClearsActiveDatabase ==
  [][nativeDisconnect =>
       IF databaseBinding = ""
       THEN /\ IsFatal(signal', ErrDisconnectNoDatabase)
            /\ UNCHANGED <<envs, mongoVars>>
       ELSE signal'.kind = "none" =>
              /\ lookupVar(envs, CurEnv, databaseBinding).value.env
                   \notin conns'
              /\ \A n \in Registered : ~hasBinding(envs', CurEnv, n)
              /\ databaseBinding' = ""
              /\ collectionBindings' = {}
    ]_vars

(***************************************************************************)
(* Properties of the module loader.                                        *)
(***************************************************************************)
\* An import statement that finds its path marked as being loaded.
CircularImportStep(path) ==
  /\ \E st \in ImportStatements : eval_import_statement(path, st)
  /\ path \in inProgress

\* C2: an import of a path that is being loaded (the entry script's
\* included) raises the circular-import error naming the path, no module
\* starts to be evaluated by it, and a program in which that happened does
\* not complete normally.
CircularImportIsFatal ==
  /\ [][ \A path \in Paths :
            CircularImportStep(path)
              => /\ IsFatal(signal', ErrCircular(path))
                 /\ stack' = stack
                 /\ envs' = envs
                 /\ inProgress' = inProgress ]_vars
  /\ [](status = "done" => ~circular)

\* An import that had started loading its module fails in this step.
ImportFails ==
  \/ eval_import_catch
  \/ eval_import_end /\ signal'.kind # "none"

\* C3: when an import that started loading a module fails, be it by the
\* module's evaluation or by the binding at the import site, the step that
\* hands the error to the importer leaves no result cached for the path,
\* the path not marked as being loaded, the module context stack as it was
\* before the import, and every enclosing path being loaded still marked.
FailedImportCleansUp ==
  [][ ImportFails =>
        /\ signal'.kind \in {"exception", "fatal"}
        /\ stack' = Pop(stack)
        /\ resultCache'[Top.path] = NotCached
        /\ Top.path \notin inProgress'
        /\ moduleStack' = SubSeq(moduleStack, 1, Top.context)
        /\ EntryPath \in inProgress'
        /\ \A i \in 1..(Len(stack) - 1) :
              stack[i].kind = "module" => stack[i].path \in inProgress'
    ]_vars

\* Module b, imported by module a, was evaluated and cached, and the
\* binding in a failed: b is evicted and unmarked, a is still being loaded.
FailedBindingEvicted ==
  /\ last.op = "importEnd"
  /\ IsFatal(signal, ErrNoExport("y"))
  /\ Len(stack) = 2
  /\ Top.kind = "module"
  /\ Top.path = "a"
  /\ inProgress = {"main", "a"}
  /\ moduleStack = <<"main", "a">>
  /\ resultCache["b"] = NotCached
  /\ "ns" \in DOMAIN envs[Top.env].variables

\* C4: all namespace bindings made by imports of one path hold the same
\* namespace object.
NamespaceIdentityUnique ==
  \A e1, e2 \in 1..Len(envs) :
     ( /\ "ns" \in DOMAIN envs[e1].variables
       /\ "ns" \in DOMAIN envs[e2].variables
       /\ envs[e1].variables["ns"].val = envs[e2].variables["ns"].val )
     => envs[e1].variables["ns"].env = envs[e2].variables["ns"].env

\* The bindings an import statement asks for, in the order they are made:
\* [name, member], member "" for the whole namespace.
RequestedBindings(statement) ==
  (IF statement.namespace = "" THEN <<>>
   ELSE <<[name |-> statement.namespace, member |-> ""]>>)
  \o [i \in 1..Len(statement.namedImports) |->
        [name |-> statement.namedImports[i],
         member |-> statement.namedImports[i]]]
  \o (IF statement.defaultBinding = "" THEN <<>>
      ELSE <<[name |-> statement.defaultBinding, member |-> "default"]>>)

\* Binding `statement` in environment e to a namespace with the members
\* `exports`: every requested name is a constant of e holding the member
\* (the namespace value holds all of `exports`), unless a requested member
\* is missing or a requested name is bound in e already or asked for
\* twice, and then the statement is fatal with the message for that name.
ImportSite(statement, e, exports) ==
  LET req == RequestedBindings(statement)
      missing == {i \in 1..Len(req) :
                    req[i].member # "" /\ req[i].member \notin DOMAIN exports}
      existing == {i \in 1..Len(req) :
                     \/ hasOwnBinding(envs, e, req[i].name)
                     \/ \E j \in 1..(i - 1) : req[j].name = req[i].name}
  IN IF missing \cup existing = {}
     THEN /\ signal'.kind = "none"
          /\ \A i \in 1..Len(req) :
               /\ hasOwnBinding(envs', e, req[i].name)
               /\ req[i].name \in envs'[e].constants
               /\ LET v == envs'[e].variables[req[i].name] IN
                    IF req[i].member = ""
                    THEN /\ v.type = "object"
                         /\ heap'[v.env].properties = exports
                    ELSE v = exports[req[i].member]
     ELSE /\ signal'.kind = "fatal"
          /\ \E i \in missing \cup existing :
               signal'.value
                 = MK_STRING(IF i \in missing THEN ErrNoExport(req[i].member)
                             ELSE ErrImportExists(req[i].name))

\* C18: at an import site, of a module just loaded or of a cached one, the
\* namespace binding receives the full namespace, each exposed name its
\* member and the default binding the member `default`, all as constants;
\* a missing exposed or default member, or a binding name that exists in
\* the importing scope already, is fatal.
ImportBindsNamespaceMembers ==
  [][/\ eval_import_end
          => ImportSite(Top.statement, Top.importer,
                        envs[Top.env].moduleExports)
     /\ \A st \in ImportShapes :
          (eval_import_statement("a", st) /\ resultCache["a"] # NotCached)
            => ImportSite(st, CurEnv, heap[resultCache["a"]].properties)
    ]_vars

\* `import ns exposing { y } default d from "a"` has bound the three names.
ImportedNamespaceMemberAndDefault ==
  /\ last.op = "importEnd"
  /\ signal.kind = "none"
  /\ {"ns", "y", "d"} \subseteq DOMAIN envs[1].variables
  /\ envs[1].variables["d"] = MK_NUMBER("2")

(***************************************************************************)
(* Properties of `using mongo`.                                            *)
(***************************************************************************)
\* C1: whenever a using mongo statement hands control back (its body ended
\* or threw, a control-flow signal passed, or connecting failed), the
\* connection it opened is closed and the registry equals the snapshot it
\* took at entry.
UsingMongoRestoresRegistry ==
  [][ /\ (eval_using_end \/ eval_using_throw)
           => /\ Top.conn \notin conns'
              /\ databaseBinding' = Top.snapshot.database
              /\ collectionBindings' = Top.snapshot.collections
      /\ \A scheme \in Schemes, cs \in CollectionConfigs :
           (eval_using_statement("db", scheme, cs) /\ stack' = stack)
           => /\ conns' = conns
              /\ databaseBinding' = databaseBinding
              /\ collectionBindings' = collectionBindings
    ]_vars

(***************************************************************************)
(* Cooperative scheduling.                                                 *)
(***************************************************************************)
\* A timer expires in this step.
ContinuationStarts ==
  \E i \in DOMAIN timers : Pending(i) /\ timers'[i].state = "fired"

\* A callback of `schedule` is running, above the activation at depth
\* Len(stack) - 2.
InCallback ==
  /\ Len(stack) > 2
  /\ Top.kind = "func" /\ stack[Len(stack) - 1].kind = "timer"

LogicalOperatorsShortCircuit ==
  [][last'.op = "binary" =>
       LET b == last'.test
           l == evaluate_effects(envs, heap, CurEnv, b.left)
           r == evaluate_effects(l.envs, l.heap, CurEnv, b.right)
           decided == isTruthy(l.heap, l.value) = (b.operator = "||")
       IN l.err = "" =>
            IF decided
            THEN /\ envs' = l.envs
                 /\ signal' = NoSignal
                 /\ result' = MK_BOOL(isTruthy(l.heap, l.value))
            ELSE /\ envs' = r.envs
                 /\ r.err = "" => result' = MK_BOOL(isTruthy(r.heap, r.value))
                 /\ r.err # "" => signal'.kind = "fatal"]_vars

\* `0 && (x = 2)` came to false and x is still 1.
FalsyLeftSkippedAssignment ==
  /\ stack # <<>>
  /\ last = Tested("binary", [operator |-> "&&",
                              left |-> Literal(MK_NUMBER("0")),
                              right |-> AssignmentExpr("x", MK_NUMBER("2"))])
  /\ result = MK_BOOL(FALSE)
  /\ lookupVar(envs, CurEnv, "x").value = MK_NUMBER("1")

\* The values the claim lists as false.
FalseValue(H, v) ==
  \/ v \in {MK_NULL, MK_BOOL(FALSE), MK_NUMBER("0"), MK_STRING("")}
  \/ v.type = "array" /\ DOMAIN H[v.env].properties = {}
  \/ v.type = "object" /\ v.val = "" /\ DOMAIN H[v.env].properties = {}

\* C23: truthiness is a total function of the value, false exactly for
\* null, false, 0, "", the empty array and the empty object; an if or while
\* body is entered exactly when the test is not one of these, `!` yields
\* true exactly for these, and `&&`, `||` yield the Boolean of the deciding
\* operand by the same rule.
TruthinessIsOneRule ==
  /\ [](\A e \in DOMAIN envs : \A n \in DOMAIN envs[e].variables :
          LET v == envs[e].variables[n]
          IN isTruthy(heap, v) \in BOOLEAN
               /\ isTruthy(heap, v) = ~FalseValue(heap, v))
  /\ [][last'.op \in {"if", "while"} =>
          LET t == evaluate_effects(envs, heap, CurEnv, last'.test)
          IN t.err = "" =>
               (Len(stack') > Len(stack) <=> ~FalseValue(t.heap, t.value))]_vars
  /\ [][last'.op = "unary" =>
          LET o == evaluate_effects(envs, heap, CurEnv, last'.test)
          IN o.err = "" => result' = MK_BOOL(FalseValue(o.heap, o.value))]_vars
  /\ [][last'.op = "binary" =>
          LET b == last'.test
              l == evaluate_effects(envs, heap, CurEnv, b.left)
              r == evaluate_effects(l.envs, l.heap, CurEnv, b.right)
              decided == FalseValue(l.heap, l.value) = (b.operator = "&&")
          IN l.err = "" /\ (decided \/ r.err = "") =>
               result' = MK_BOOL(IF decided THEN ~FalseValue(l.heap, l.value)
                                 ELSE ~FalseValue(r.heap, r.value))]_vars

\* `![]` came to true: the empty array is false.
EmptyArrayNegatedIsTrue ==
  /\ last = Tested("unary", ArrayLiteral(<<>>))
  /\ result = MK_BOOL(TRUE)

(***************************************************************************)
(* Numbers in the lexer.                                                   *)
(***************************************************************************)
\* The digits a text starts with from position i on.
RECURSIVE DigitsFrom(_, _)
DigitsFrom(text, i) ==
  IF i <= Len(text) /\ isInt(text[i])
  THEN <<text[i]>> \o DigitsFrom(text, i + 1) ELSE <<>>

\* The text starts with a literal with a leading dot, resp. with a literal
\* whose dot is followed by no digit.
LeadingDot(text) == Len(text) > 1 /\ text[1] = "." /\ isInt(text[2])
TrailingDot(text) ==
  LET k == Len(DigitsFrom(text, 1))
  IN /\ k > 0 /\ Len(text) > k /\ text[k + 1] = "."
     /\ DigitsFrom(text, k + 2) = <<>>

\* C24: a literal with a leading dot followed by a digit is one number
\* token whose value starts with 0., and a text with a numeric literal
\* whose dot is followed by no digit has no token stream.
NumbersLexAsStated ==
  /\ LeadingDot(sourceCode) /\ ~lexed.exit =>
       lexed.tokens[1]
         = token(<<"0", ".">> \o DigitsFrom(sourceCode, 2), "Number")
  /\ TrailingDot(sourceCode) => lexed = Exit

(***************************************************************************)
(* Method parameters and field locals.                                     *)
(***************************************************************************)
\* The value the field local `name` of method scope e holds.
FieldLocal(E, e, name) == lookupVar(E, e, name).value

\* The method invocation on top returns to its caller in this step.
MethodReturns ==
  /\ stack # <<>> /\ Top.kind = "method"
  /\ last'.op \in {"methodEnd", "methodCatch"}
  /\ signal' = NoSignal

\* C25: a method call binds each field local to the argument of the
\* parameter of that name, and to the receiver's property when no parameter
\* has the name; the body changes a field local by assignment only; and a
\* call that returns writes every field local to the receiver.  So the
\* receiver's field holds the argument unless the body assigned the name,
\* and a parameter of another name changes no field.
ParameterNamedAsFieldSetsField ==
  /\ [][\A object \in {"o", "this"}, method \in {"m", "set", "put"},
          args \in MethodArguments :
          eval_member_call(object, method, args) /\ Len(stack') > Len(stack)
          => LET methodEnv == stack'[Len(stack')].env
                 inst == heap[stack'[Len(stack')].inst]
                 parameters == MethodParameters(inst.schemaName, method)
             IN \A f \in FieldNames(inst.schemaName) :
                  IF \E j \in DOMAIN parameters : parameters[j].name = f
                  THEN LET j == CHOOSE k \in DOMAIN parameters :
                                  parameters[k].name = f
                       IN /\ j <= Len(args)
                          /\ FieldLocal(envs', methodEnv, f) = args[j]
                  ELSE FieldLocal(envs', methodEnv, f) = inst.properties[f]]_vars
  /\ [][/\ stack # <<>> /\ Top.kind = "method"
        /\ Len(stack') >= Len(stack) /\ last'.op # "assign"
        => \A f \in FieldNames(heap[Top.inst].schemaName) :
             FieldLocal(envs', Top.env, f) = FieldLocal(envs, Top.env, f)]_vars
  /\ [][MethodReturns
        => \A f \in FieldNames(heap[Top.inst].schemaName) :
             heap'[Top.inst].properties[f] = FieldLocal(envs, Top.env, f)]_vars

\* o.set(3) returned to the program and o.px is 3.
SetLeftArgumentInField ==
  /\ Len(stack) = 1
  /\ last.op = "methodEnd"
  /\ hasBinding(envs, 1, "o")
  /\ heap[lookupVar(envs, 1, "o").value.env].properties["px"] = MK_NUMBER("3")

\* C26: when an outer method of o returns whose field local px still holds
\* the 1 the instance was created with (the body did not assign px) while
\* o.px holds the 3 a nested call set, o.px is 3 after the return.
NestedFieldUpdateIsKept ==
  [][/\ MethodReturns
     /\ FieldLocal(envs, Top.env, "px") = MK_NUMBER("1")
     /\ heap[Top.inst].properties["px"] = MK_NUMBER("3")
     => heap'[Top.inst].properties["px"] = MK_NUMBER("3")]_vars

(***************************************************************************)
(* Bindings of the enclosing scopes.                                       *)
(***************************************************************************)
\* The environments that exist before and after the step.
Surviving == 1..(IF Len(envs) < Len(envs') THEN Len(envs) ELSE Len(envs'))

\* C27: a `using mongo` statement, entering and leaving, changes no binding
\* of an environment that exists outside it: every name bound there before
\* is bound there to the same value afterwards.
UsingMongoKeepsEnclosingBindings ==
  [][last'.op \in {"using", "usingEnd", "usingThrow"}
       => \A e \in Surviving : envs'[e].variables = envs[e].variables]_vars

\* C28: `database x = ...`, `collection x` and `use collection x` leave a
\* constant named x that is no binding of the DSL registry as it is, in
\* the scope that declared it.
ConstantsSurviveDslStatements ==
  [][\A x \in {"c", "print", "e", "u"} :
       \/ eval_database_statement(x, Identifier("db"))
       \/ eval_collection_statement(x)
       \/ eval_use_collection_statement(x)
       => \A e \in Surviving :
            x \in envs[e].constants /\ x \notin {databaseBinding} \cup collectionBindings
            => /\ x \in envs'[e].constants
               /\ envs'[e].variables[x] = envs[e].variables[x]]_vars

(***************************************************************************)
(* The deferred cleanup of disconnect.                                     *)
(***************************************************************************)
\* C29: when the cleanup of a disconnect call runs after another database
\* has been registered, the registry is left as it is and the registered
\* names are still bound.
CleanupKeepsNewDatabase ==
  [][\A i \in DOMAIN timers :
       /\ timers[i].kind = "cleanup" /\ Pending(i)
       /\ timers'[i].state = "fired"
       /\ databaseBinding # timers[i].binding
       => /\ databaseBinding' = databaseBinding
          /\ collectionBindings' = collectionBindings
          /\ \A n \in {databaseBinding} \cup collectionBindings :
               hasBinding(envs, timers[i].env, n)
                 => hasBinding(envs', timers[i].env, n)]_vars

(***************************************************************************)
(* Blocks create no scope.                                                 *)
(***************************************************************************)
\* The frames of the bodies of if, while and try statements.
BlockFrames == {i \in 2..Len(stack) : stack[i].kind \in {"if", "while", "try"}}

\* The statements that create an environment: the call of a function or a
\* method, a catch clause, `using mongo`, the evaluation of a module and
\* the instantiation of a schema.
ScopeCreators == {"call", "tryCatch", "using", "import", "new"}

\* C30: the body of an if, while or try block is evaluated in the
\* environment of the enclosing statement, and entering the block or
\* starting an iteration changes no environment; what is bound in that
\* environment when the block ends is resolved to the same value after it;
\* the declaration of the loop body, executed again in a later iteration,
\* raises the redeclaration error; and only function and method calls,
\* catch clauses, `using mongo`, module evaluation and schema
\* instantiation add an environment.
BlocksCreateNoScope ==
  /\ [](\A i \in BlockFrames : stack[i].env = stack[i - 1].env)
  /\ [][last'.op \in {"if", "while", "try", "iterate"} => envs' = envs]_vars
  /\ [][last'.op = "blockEnd" /\ Len(stack) > 1
          /\ Top.kind \in {"if", "while", "try"}
        => \A n \in DOMAIN envs[CurEnv].variables :
             LET r == lookupVar(envs', stack'[Len(stack')].env, n)
             IN r.err = "" /\ r.value = envs[CurEnv].variables[n]]_vars
  /\ [][last.op = "iterate" /\ last'.op = "declare"
        => IsFatal(signal', ErrAlreadyDeclared)]_vars
  /\ [][Len(envs') > Len(envs) => last'.op \in ScopeCreators]_vars

\* The loop in the body of f declared x in its first iteration and the
\* declaration of the second iteration was refused.
RedeclaredInSecondIteration ==
  /\ Len(stack) = 3
  /\ stack[2].kind = "func"
  /\ Top.kind = "while"
  /\ last.op = "declare"
  /\ IsFatal(signal, ErrAlreadyDeclared)
  /\ hasOwnBinding(envs, stack[2].env, "x")
  /\ ~hasOwnBinding(envs, 1, "x")

====
